---- MODULE Spec2Model ----
(***************************************************************************)
(* A model of LLM-playground:                                              *)
(*   - tool_list_to_tool_obj of 05_finance_stock/stock_info_streamlit.py,  *)
(*     the reducer of streamed tool-call fragments, inside the chat turn   *)
(*     that calls it, and the script run of that page;                     *)
(*   - display_message_tree of utils/messages.py and of utils/graphs.py,   *)
(*     the two tree renderers, as functions and as the interpreter runs    *)
(*     them on a heap;                                                     *)
(*   - MessageChunkAccumulator, stream_graph and AgentStreamParser of      *)
(*     utils/messages.py;                                                  *)
(*   - langsmith of utils/langsmith.py;                                    *)
(*   - the loop of 03_get_time/get_time_terminal.py.                       *)
(* Python's None is the string None; no id, name or type of the model is   *)
(* that string.  Text is a TLA+ string, joined with \o as Python's + does. *)
(***************************************************************************)
EXTENDS Integers, Sequences, FiniteSets, TLC

VARIABLES
    tool_calls_chunk,   \* stock_info_streamlit.py:80,91  fragments gathered from the stream
    tool_calls_dict,    \* stock_info_streamlit.py:16     the dict the last call built
    tool_calls,         \* stock_info_streamlit.py:79,94  the list the last call returned
    pc,                 \* where the chat turn stands
    raised,             \* where an exception was raised, or "none"
    received,           \* fragments received since the session began
    prior_calls,        \* the list returned by the turn before this one
    message,            \* the value handed to display_message_tree
    rendered_by,        \* the module whose display_message_tree ran, or "none"
    stdout,             \* the lines it printed
    call_log,           \* what each display_message_tree call of a caller rendered
    first_stdout,       \* the lines the first call on the message printed
    heap,               \* the containers a caller has built, by address
    stack,              \* the frames of _display_message_tree under way
    outcome,            \* how the call on the heap's root stands or ended
    visited,            \* the items a call was made on or a line was printed for, in order
    gathered,           \* messages.py:571  MessageChunkAccumulator.gathered
    current_node,       \* messages.py:572  MessageChunkAccumulator.current_node
    current_namespace,  \* messages.py:573  MessageChunkAccumulator.current_namespace
    log,                \* the calls made on the accumulator, in order
    environ,            \* langsmith.py     os.environ
    environ_before,     \* os.environ as the last langsmith call found it
    langsmith_args,     \* the arguments of the last langsmith call
    langsmith_raised,   \* what the last langsmith call raised, or "none"
    stream_args,        \* messages.py:746-753  the arguments of the stream_graph call
    streamed,           \* what graph.stream has yielded so far, in order
    callback_calls,     \* the arguments of the calls of callback, in order
    prev_node,          \* messages.py:770  prev_node
    final_result,       \* messages.py:771  final_result
    stream_pc,          \* where the stream_graph call stands
    session_messages,   \* stock_info_streamlit.py:60-63   st.session_state.messages
    ai_response,        \* stock_info_streamlit.py:76,133  the generator ai_response names
    content,            \* stock_info_streamlit.py:78,135  content
    function_result,    \* stock_info_streamlit.py:108-120 function_result, or unbound
    dispatch_at,        \* stock_info_streamlit.py:101     the tool call the loop is at
    responses,          \* the chunks each model response of the run has yielded
    st_chat,            \* the chat messages the page shows
    terminal_messages,  \* get_time_terminal.py:20-22  messages
    terminal_pc,        \* where the loop of get_time_terminal.py stands
    requests,           \* the messages of each request sent to the model, in order
    inputs_read,        \* the inputs read so far
    parser_output,      \* messages.py:391  AgentStreamParser.output
    callbacks_called,   \* the calls of the parser's callbacks, in order
    processed           \* the calls made on the parser, in order

turn_vars == <<tool_calls_chunk, tool_calls_dict, tool_calls, pc, raised, received, prior_calls>>

tree_vars == <<message, rendered_by, stdout>>

calls_vars == <<call_log, first_stdout>>

heap_vars == <<heap, stack, outcome, visited>>

accumulator_vars == <<gathered, current_node, current_namespace, log>>

environ_vars == <<environ, environ_before, langsmith_args, langsmith_raised>>

stream_vars == <<stream_args, streamed, callback_calls, prev_node, final_result, stream_pc>>

chat_vars == <<session_messages, ai_response, content, function_result, dispatch_at, responses,
               st_chat>>

terminal_vars == <<terminal_messages, terminal_pc, requests, inputs_read>>

parser_vars == <<parser_output, callbacks_called, processed>>

further_vars == <<stream_vars, chat_vars, terminal_vars, parser_vars>>

\* What neither the chat turn nor a single rendering touches.
other_vars == <<calls_vars, heap_vars, accumulator_vars, environ_vars, further_vars>>

vars == <<turn_vars, tree_vars, other_vars>>

None == "None"

\* Fragments received in one session.
MaxLen == 3
\* Fragment indices are 0..MaxIndex.
MaxIndex == 1
\* Nodes (containers and primitives) of a rendered value.
MaxNodes == 4

(***************************************************************************)
(* The fragments of a stream: ChoiceDeltaToolCall objects, read by the     *)
(* code through index, id, function.name, function.arguments and type.     *)
(* A fragment is one of these shapes:                                      *)
(*   - metadata with an empty arguments text, as the first fragment of a   *)
(*     call is: id, name and type together, the id alone, the name alone;  *)
(*   - a continuation: no metadata, and a text that is empty, "{" or "}";  *)
(*   - metadata and a non-empty text at once.                              *)
(* Over the characters { and }, the chunks make texts that are JSON ("{}") *)
(* and texts that are not.                                                 *)
(***************************************************************************)
NoMeta == <<None, None, None>>

FullMeta == <<"call_a", "get_stock_info", "function">>

Metas == { NoMeta, FullMeta, <<"call_b", None, None>>, <<None, "get_current_time", None>> }

Shapes ==
    { <<m, "">> : m \in Metas }
        \cup { <<NoMeta, a>> : a \in {"{", "}"} }
        \cup { <<FullMeta, "{">> }

ToolCallDelta(i, m, a) ==
    [index |-> i, id |-> m[1], type |-> m[3],
     function |-> [name |-> m[2], arguments |-> a]]

Fragments == { ToolCallDelta(i, s[1], s[2]) : i \in 0..MaxIndex, s \in Shapes }

\* The fragments of a session of several turns: continuations with a text,
\* and fragments with metadata and a text.
SessionFragments ==
    { ToolCallDelta(i, s[1], s[2]) :
        i \in 0..MaxIndex,
        s \in { <<NoMeta, "{">>, <<NoMeta, "}">>, <<FullMeta, "{">> } }

(***************************************************************************)
(* A Python dict: its keys in insertion order, and the value of each key.  *)
(***************************************************************************)
EmptyDict == [keys |-> <<>>, val |-> <<>>]

HasKey(d, k) == \E n \in 1..Len(d.keys) : d.keys[n] = k

\* The default factory of the defaultdict.
DefaultSlot ==
    [id |-> None, functions |-> [arguments |-> "", name |-> None], type |-> None]

\* tool_calls_dict[k]: a defaultdict inserts the factory's value under a
\* missing key, at the end of the insertion order.
GetItem(d, k) ==
    IF HasKey(d, k)
    THEN d
    ELSE [keys |-> Append(d.keys, k), val |-> (k :> DefaultSlot) @@ d.val]

\* Line 16: the dict a call works on is a new one, whatever dict the call
\* before it left behind.  (StaleDict: the dict outlives the call.)
StaleDict(prev) == prev
NewDict(prev) == EmptyDict

\* "is not None", the guard of the three field assignments.
\* (Unguarded: the assignment is made whatever the value.)
Unguarded(v) == TRUE
IsNotNone(v) == v # None

\* The += of line 34.  (Prepend: the operands swapped.)
Prepend(old, chunk) == chunk \o old
AppendArguments(old, chunk) == old \o chunk

\* The key tool_calls_dict is subscripted with, for a fragment of index k.
\* (SharedSlotKey: one slot for every index.)
SharedSlotKey(k) == 0
SlotKey(k) == k

\* The body of the for loop, lines 25-38, on one fragment.
LoopBody(d, tool_call) ==
    LET k  == SlotKey(tool_call.index)
        d1 == IF IsNotNone(tool_call.id)
              THEN [GetItem(d, k) EXCEPT !.val[k].id = tool_call.id]
              ELSE d
        d2 == IF IsNotNone(tool_call.function.name)
              THEN [GetItem(d1, k) EXCEPT !.val[k].functions.name = tool_call.function.name]
              ELSE d1
        d3 == [GetItem(d2, k) EXCEPT !.val[k].functions.arguments =
                                 AppendArguments(@, tool_call.function.arguments)]
        d4 == IF IsNotNone(tool_call.type)
              THEN [GetItem(d3, k) EXCEPT !.val[k].type = tool_call.type]
              ELSE d3
    IN  d4

\* The for loop of line 24 over the fragments, in arrival order.
RECURSIVE Accumulate(_, _)
Accumulate(d, tools) ==
    IF tools = <<>>
    THEN d
    ELSE Accumulate(LoopBody(d, Head(tools)), Tail(tools))

\* Line 40, list(tool_calls_dict.values()): the values in insertion order.
\* (SortedValues: in ascending key order.  ValuesWithArguments: the slots
\* with an empty arguments text left out.)
RECURSIVE AscendingKeys(_)
AscendingKeys(S) ==
    IF S = {}
    THEN <<>>
    ELSE LET m == CHOOSE x \in S : \A y \in S : x <= y
         IN  <<m>> \o AscendingKeys(S \ {m})

SortedValues(d) ==
    LET ks == AscendingKeys({ d.keys[n] : n \in 1..Len(d.keys) })
    IN  [n \in 1..Len(ks) |-> d.val[ks[n]]]

HasArguments(slot) == slot.functions.arguments # ""

ValuesWithArguments(d) ==
    SelectSeq([n \in 1..Len(d.keys) |-> d.val[d.keys[n]]], HasArguments)

Values(d) == [n \in 1..Len(d.keys) |-> d.val[d.keys[n]]]

\* json.loads of an arguments text: over the characters { and } the one
\* JSON document is the empty object.
JsonLoadsOk(text) == text = "{}"

\* What the call raises: lines 15-40 hold no raise statement and decode
\* nothing.  (RaisesOnMalformed: the function decodes what it gathered.)
RaisesOnMalformed(d) ==
    IF \E n \in 1..Len(d.keys) : ~JsonLoadsOk(d.val[d.keys[n]].functions.arguments)
    THEN "tool_list_to_tool_obj" ELSE "none"
AccumulatorRaises(d) == "none"

\* tool_list_to_tool_obj(tools), with the dict of the call before it.
tool_list_to_tool_obj(prev, tools) ==
    LET d == Accumulate(NewDict(prev), tools)
    IN  [dict |-> d, tool_calls |-> Values(d), raised |-> AccumulatorRaises(d)]

(***************************************************************************)
(* The chat turn around the call (one run of the Streamlit script).        *)
(***************************************************************************)
InitTurn ==
    /\ tool_calls_chunk = <<>>
    /\ tool_calls_dict = EmptyDict
    /\ tool_calls = <<>>
    /\ pc = "stream"
    /\ raised = "none"
    /\ received = 0
    /\ prior_calls = <<>>

\* Lines 84-91: a streamed chunk that carries a tool-call fragment.
ReceiveChunk(F) ==
    /\ pc = "stream"
    /\ received < MaxLen
    /\ \E tool_call \in F :
          tool_calls_chunk' = Append(tool_calls_chunk, tool_call)
    /\ received' = received + 1
    /\ UNCHANGED <<tool_calls_dict, tool_calls, pc, raised, prior_calls>>
    /\ UNCHANGED <<tree_vars, other_vars>>

Receive == ReceiveChunk(Fragments)

ReceiveInSession == ReceiveChunk(SessionFragments)

\* Lines 93-94: the stream has ended, the fragments are accumulated.
EndOfStream ==
    /\ pc = "stream"
    /\ LET r == tool_list_to_tool_obj(tool_calls_dict, tool_calls_chunk)
       IN  IF r.raised = "none"
           THEN /\ tool_calls_dict' = r.dict
                /\ tool_calls' = r.tool_calls
                /\ pc' = "accumulated"
                /\ UNCHANGED raised
           ELSE /\ raised' = r.raised
                /\ pc' = "failed"
                /\ UNCHANGED <<tool_calls_dict, tool_calls>>
    /\ UNCHANGED <<tool_calls_chunk, received, prior_calls>>
    /\ UNCHANGED <<tree_vars, other_vars>>

\* The first tool call, in list order, whose arguments json.loads rejects
\* (0: none).
FirstMalformed(calls) ==
    LET bad == { n \in 1..Len(calls) : ~JsonLoadsOk(calls[n].functions.arguments) }
    IN  IF bad = {} THEN 0 ELSE CHOOSE n \in bad : \A m \in bad : n <= m

\* Lines 100-104: the caller decodes the arguments of each tool call.
DispatchToolCalls ==
    /\ pc = "accumulated"
    /\ IF FirstMalformed(tool_calls) = 0
       THEN pc' = "dispatched" /\ UNCHANGED raised
       ELSE pc' = "failed" /\ raised' = "json.loads"
    /\ UNCHANGED <<tool_calls_chunk, tool_calls_dict, tool_calls, received, prior_calls>>
    /\ UNCHANGED <<tree_vars, other_vars>>

\* Lines 70-80: the next user input runs the script again.
NextTurn ==
    /\ pc \in {"dispatched", "failed"}
    /\ received < MaxLen
    /\ prior_calls' = tool_calls
    /\ tool_calls' = <<>>
    /\ tool_calls_chunk' = <<>>
    /\ pc' = "stream"
    /\ raised' = "none"
    /\ UNCHANGED <<tool_calls_dict, received>>
    /\ UNCHANGED <<tree_vars, other_vars>>

\* No value is being rendered.
TreeIdle ==
    /\ message = [kind |-> "NoneType"]
    /\ rendered_by = "none"
    /\ stdout = <<>>

\* No caller is calling display_message_tree again and again.
CallsIdle ==
    /\ call_log = <<>>
    /\ first_stdout = <<>>

\* No heap of containers has been built.
HeapIdle ==
    /\ heap = <<>>
    /\ stack = <<>>
    /\ outcome = "none"
    /\ visited = <<>>

\* MessageChunkAccumulator.__init__ (_reset_state), before any call.
AccumulatorIdle ==
    /\ gathered = [kind |-> "NoneType"]
    /\ current_node = None
    /\ current_namespace = None
    /\ log = <<>>

\* langsmith has not been called.
EnvironIdle ==
    /\ environ = <<>>
    /\ environ_before = <<>>
    /\ langsmith_args = [kind |-> "NoneType"]
    /\ langsmith_raised = "none"

\* stream_graph has not been called.
StreamIdle ==
    /\ stream_args = [kind |-> "NoneType"]
    /\ streamed = <<>>
    /\ callback_calls = <<>>
    /\ prev_node = ""
    /\ final_result = [kind |-> "NoneType"]
    /\ stream_pc = "none"

\* The Streamlit script is not running.
ChatIdle ==
    /\ session_messages = <<>>
    /\ ai_response = [kind |-> "NoneType"]
    /\ content = ""
    /\ function_result = [kind |-> "unbound"]
    /\ dispatch_at = 0
    /\ responses = <<>>
    /\ st_chat = <<>>

\* The terminal chatbot is not running.
TerminalIdle ==
    /\ terminal_messages = <<>>
    /\ terminal_pc = "none"
    /\ requests = <<>>
    /\ inputs_read = 0

\* AgentStreamParser.__init__, before any call.
ParserIdle ==
    /\ parser_output = None
    /\ callbacks_called = <<>>
    /\ processed = <<>>

FurtherIdle == StreamIdle /\ ChatIdle /\ TerminalIdle /\ ParserIdle

OthersIdle == CallsIdle /\ HeapIdle /\ AccumulatorIdle /\ EnvironIdle /\ FurtherIdle

Init == InitTurn /\ TreeIdle /\ OthersIdle

Next == Receive \/ EndOfStream \/ DispatchToolCalls

Spec == Init /\ [][Next]_vars

NextSession == ReceiveInSession \/ EndOfStream \/ DispatchToolCalls \/ NextTurn

SpecSession == Init /\ [][NextSession]_vars

(***************************************************************************)
(* What the accumulator is checked against: the fragments of one index, in *)
(* arrival order, and what they say, written without the loop.             *)
(***************************************************************************)
OfIndex(tools, i) == SelectSeq(tools, LAMBDA f : f.index = i)

IndicesOf(tools) == { tools[n].index : n \in 1..Len(tools) }

RECURSIVE ConcatArguments(_)
ConcatArguments(fs) ==
    IF fs = <<>>
    THEN ""
    ELSE Head(fs).function.arguments \o ConcatArguments(Tail(fs))

\* The last value of a sequence that is not None; None when there is none.
LastNonNull(values) ==
    LET at == { n \in 1..Len(values) : values[n] # None }
    IN  IF at = {} THEN None ELSE values[CHOOSE n \in at : \A m \in at : m <= n]

IdsOf(fs) == [n \in 1..Len(fs) |-> fs[n].id]

NamesOf(fs) == [n \in 1..Len(fs) |-> fs[n].function.name]

TypesOf(fs) == [n \in 1..Len(fs) |-> fs[n].type]

\* The indices of a stream, each once, in the order of their first fragment.
RECURSIVE FirstArrivals(_)
FirstArrivals(tools) ==
    IF tools = <<>>
    THEN <<>>
    ELSE LET before == FirstArrivals(SubSeq(tools, 1, Len(tools) - 1))
             i      == tools[Len(tools)].index
         IN  IF \E n \in 1..Len(before) : before[n] = i
             THEN before
             ELSE Append(before, i)

\* The places of the returned list that hold the descriptor of index i.
PlacesOf(i) ==
    { n \in 1..Len(tool_calls) : n <= Len(tool_calls_dict.keys) /\ tool_calls_dict.keys[n] = i }

\* The call has returned and its result is the one in hand.
Accumulated == pc = "accumulated"

\* C1: the arguments text of the descriptor of each index that occurs is
\* the concatenation, in arrival order, of the arguments texts of exactly
\* the fragments of that index, whatever else a fragment carries and also
\* when its text is empty.
C1_ArgumentsConcatenated ==
    Accumulated =>
        \A i \in IndicesOf(tool_calls_chunk) :
            /\ PlacesOf(i) # {}
            /\ \A n \in PlacesOf(i) :
                  tool_calls[n].functions.arguments =
                      ConcatArguments(OfIndex(tool_calls_chunk, i))

\* C1 witness: the text of index 0 is gathered from a fragment that
\* carries an id and from a later one, with a fragment of index 1 between
\* the two.
C1_Witness ==
    /\ Accumulated
    /\ Len(tool_calls_chunk) = 3
    /\ tool_calls_chunk[1].index = 0 /\ tool_calls_chunk[1].id = "call_a"
    /\ tool_calls_chunk[1].function.arguments = "{"
    /\ tool_calls_chunk[2].index = 1 /\ tool_calls_chunk[2].function.arguments = "}"
    /\ tool_calls_chunk[3].index = 0 /\ tool_calls_chunk[3].function.arguments = "}"
    /\ tool_calls[1].functions.arguments = "{}"
    /\ tool_calls[2].functions.arguments = "}"

\* C2: the descriptor of an index is the one its own fragments alone
\* give, whatever fragments of other indices are interleaved with them; as
\* every prefix of a stream is a stream, this holds after every prefix.
C2_NoCrossContamination ==
    Accumulated =>
        \A i \in IndicesOf(tool_calls_chunk) :
            /\ PlacesOf(i) # {}
            /\ \A n \in PlacesOf(i) :
                  <<tool_calls[n]>> =
                      tool_list_to_tool_obj(EmptyDict, OfIndex(tool_calls_chunk, i)).tool_calls

\* C2 witness: fragments of index 1 between two fragments of index 0, or
\* the other way round, each with a text.
C2_Witness ==
    /\ Accumulated
    /\ Len(tool_calls_chunk) = 3
    /\ tool_calls_chunk[1].index = tool_calls_chunk[3].index
    /\ tool_calls_chunk[2].index # tool_calls_chunk[1].index
    /\ \A n \in 1..3 : tool_calls_chunk[n].function.arguments # ""
    /\ tool_calls_chunk[2].id # None
    /\ tool_calls_chunk[1].id = None /\ tool_calls_chunk[3].id = None
    /\ Len(tool_calls) = 2
    /\ tool_calls[1].id = None /\ tool_calls[2].id = "call_a"

\* C3 as claimed: the returned list is in ascending order of index.
C3_AscendingIndexOrder ==
    Accumulated =>
        \A n, m \in 1..Len(tool_calls_dict.keys) :
            n < m => tool_calls_dict.keys[n] < tool_calls_dict.keys[m]

\* C3, amended: the returned list is in the order in which the indices
\* first arrived: its n-th descriptor is the one of the n-th index to
\* arrive, which is ascending order when the first fragments arrive so.
C3_FirstArrivalOrder ==
    Accumulated =>
        LET order == FirstArrivals(tool_calls_chunk)
        IN  /\ Len(tool_calls) = Len(order)
            /\ tool_calls_dict.keys = order
            /\ \A n \in 1..Len(order) :
                  /\ n <= Len(tool_calls)
                  /\ <<tool_calls[n]>> =
                        tool_list_to_tool_obj(EmptyDict, OfIndex(tool_calls_chunk, order[n])).tool_calls

\* C3 witness: a fragment of index 1 arrives before the first of index 0,
\* and the descriptor of index 1 is the first of the list.
C3_Witness ==
    /\ Accumulated
    /\ Len(tool_calls_chunk) >= 2
    /\ tool_calls_chunk[1].index = 1 /\ tool_calls_chunk[1].id = "call_b"
    /\ tool_calls_chunk[2].index = 0 /\ tool_calls_chunk[2].id = "call_a"
    /\ Len(tool_calls) = 2
    /\ tool_calls[1].id = "call_b" /\ tool_calls[2].id = "call_a"

\* C4: the returned list holds one descriptor for each index that occurs
\* among the fragments and no other; an index whose fragments all carry an
\* empty text is among them, with an empty arguments text; no fragment, no
\* descriptor.
C4_OnePerIndex ==
    Accumulated =>
        /\ Len(tool_calls) = Cardinality(IndicesOf(tool_calls_chunk))
        /\ Len(tool_calls_dict.keys) = Len(tool_calls)
        /\ { tool_calls_dict.keys[n] : n \in 1..Len(tool_calls_dict.keys) }
              = IndicesOf(tool_calls_chunk)
        /\ \A i \in IndicesOf(tool_calls_chunk) :
              /\ Cardinality(PlacesOf(i)) = 1
              /\ (\A n \in 1..Len(tool_calls_chunk) :
                      tool_calls_chunk[n].index = i
                          => tool_calls_chunk[n].function.arguments = "")
                    => \A n \in PlacesOf(i) : tool_calls[n].functions.arguments = ""
        /\ (tool_calls_chunk = <<>> => tool_calls = <<>>)

\* C4 witness: a call of one fragment, with a name and an empty text,
\* beside a call with a text.
C4_Witness ==
    /\ Accumulated
    /\ Len(tool_calls_chunk) = 3
    /\ tool_calls_chunk[1].index = 0 /\ tool_calls_chunk[2].index = 1
    /\ tool_calls_chunk[3].index = 0
    /\ tool_calls_chunk[2].function.name = "get_current_time"
    /\ tool_calls_chunk[2].function.arguments = ""
    /\ tool_calls_chunk[1].function.arguments = "{"
    /\ Len(tool_calls) = 2
    /\ tool_calls[2].functions.arguments = ""
    /\ tool_calls[2].functions.name = "get_current_time"

\* C5: the id, the name and the type of a descriptor are each the last
\* value that is not None among its fragments, and None when no fragment
\* carried one: a later None clears nothing.
C5_LastNonNullWins ==
    Accumulated =>
        \A i \in IndicesOf(tool_calls_chunk) :
            /\ PlacesOf(i) # {}
            /\ \A n \in PlacesOf(i) :
                  LET fs == OfIndex(tool_calls_chunk, i)
                  IN  /\ tool_calls[n].id = LastNonNull(IdsOf(fs))
                      /\ tool_calls[n].functions.name = LastNonNull(NamesOf(fs))
                      /\ tool_calls[n].type = LastNonNull(TypesOf(fs))

\* C5 witness: the id on the first fragment alone, the name on the second
\* alone, a third fragment with neither, and both set in the descriptor.
C5_Witness ==
    /\ Accumulated
    /\ Len(tool_calls_chunk) = 3
    /\ \A n \in 1..3 : tool_calls_chunk[n].index = 0
    /\ tool_calls_chunk[1].id = "call_b" /\ tool_calls_chunk[1].function.name = None
    /\ tool_calls_chunk[2].id = None /\ tool_calls_chunk[2].function.name = "get_current_time"
    /\ tool_calls_chunk[3].id = None /\ tool_calls_chunk[3].function.name = None
    /\ Len(tool_calls) = 1
    /\ tool_calls[1].id = "call_b"
    /\ tool_calls[1].functions.name = "get_current_time"
    /\ tool_calls[1].type = None

Expected(tools) ==
    LET order == FirstArrivals(tools)
    IN  [n \in 1..Len(order) |->
            LET fs == OfIndex(tools, order[n])
            IN  [id |-> LastNonNull(IdsOf(fs)),
                 functions |-> [arguments |-> ConcatArguments(fs),
                                name |-> LastNonNull(NamesOf(fs))],
                 type |-> LastNonNull(TypesOf(fs))]]

\* C7: what a call returns is what its own stream gives, whatever streams
\* were accumulated in the turns before it: nothing of an earlier stream is
\* in it.
C7_FreshPerCall ==
    Accumulated => tool_calls = Expected(tool_calls_chunk)

\* C7 witness: a second call, after a call that returned descriptors, on a
\* stream on which it returns one descriptor with the text of that stream.
C7_Witness ==
    /\ Accumulated
    /\ prior_calls # <<>>
    /\ Len(prior_calls) = 2
    /\ Len(tool_calls) = 1
    /\ tool_calls_chunk # <<>>
    /\ tool_calls[1].functions.arguments = "}"
    /\ tool_calls[1].id = None

(***************************************************************************)
(* The tree renderers.  A value is a record with its Python type in kind:  *)
(* a str, an int, None, a dict (its items, in iteration order, as pairs of *)
(* key and value), a list (its items), or an object with a __dict__        *)
(* (a dict); a BaseMessage is such an object.                              *)
(***************************************************************************)
StrValue(text) == [kind |-> "str", s |-> text]

IntValue(number) == [kind |-> "int", n |-> number]

NoneValue == [kind |-> "NoneType"]

\* A value that is no dict and no list and has no __dict__ (an instance of a
\* class with __slots__, say), with the text str() gives of it.
OpaqueValue == [kind |-> "opaque", repr |-> "<slots>"]

DictValue(pairs) == [kind |-> "dict", items |-> pairs]

ListValue(elements) == [kind |-> "list", items |-> elements]

ObjectValue(attributes) == [kind |-> "object", dict |-> DictValue(attributes)]

MessageValue(attributes) == [kind |-> "BaseMessage", dict |-> DictValue(attributes)]

Primitives == { StrValue("x"), IntValue(1), NoneValue, OpaqueValue }

Keys == {"a", "b"}

\* The values of one node: the primitives and the empty containers.
Leaves == Primitives \cup { DictValue(<<>>), ListValue(<<>>), ObjectValue(<<>>) }

\* The values a caller starts from: a leaf, or a message without fields.
Roots == Leaves \cup { MessageValue(<<>>) }

\* isinstance(value, dict), isinstance(value, list), hasattr(value, "__dict__").
IsDict(value) == value.kind = "dict"

IsList(value) == value.kind = "list"

HasDict(value) == value.kind \in {"object", "BaseMessage"}

\* str(n) of a small int.
IntStr(number) ==
    CASE number = 0 -> "0" [] number = 1 -> "1" [] number = 2 -> "2"
      [] number = 3 -> "3" [] number = 4 -> "4" [] number = 5 -> "5"
      [] number = 6 -> "6" [] number = 7 -> "7" [] number = 8 -> "8"
      [] number = 9 -> "9"

\* str(value) and f"{value}" of a primitive.
PyStr(value) ==
    CASE value.kind = "str" -> value.s
      [] value.kind = "int" -> IntStr(value.n)
      [] value.kind = "NoneType" -> "None"
      [] value.kind = "opaque" -> value.repr

\* ", ".join(items).
RECURSIVE Join(_)
Join(items) ==
    IF items = <<>> THEN ""
    ELSE IF Len(items) = 1 THEN items[1]
    ELSE items[1] \o ", " \o Join(Tail(items))

\* A printed line f"{spacing}{color}{label}{reset}{rest}": the number of
\* spaces it begins with, the colour code, the coloured text, and the text
\* after the reset code.
Line(spaces, color, label, rest) ==
    [spaces |-> spaces, color |-> color, label |-> label, rest |-> rest]

\* Spaces of indentation for each level of depth.
IndentWidth == 4
\* The spaces a list's index marker is indented by, beyond its list.
MarkerIndent == 4
\* The same, in utils/graphs.py.
GraphsMarkerIndent == 3
\* The depths that have a colour of their own.
ColouredDepths == 5

\* DEPTH_COLORS.get(indent + 1, DEPTH_COLORS["default"]); ESC is the
\* escape character.
DepthColor(indent) ==
    CASE indent + 1 = 1 -> "ESC[96m"
      [] indent + 1 = 2 -> "ESC[93m"
      [] indent + 1 = 3 -> "ESC[94m"
      [] indent + 1 = 4 -> "ESC[95m"
      [] indent + 1 = ColouredDepths -> "ESC[92m"
      [] OTHER -> "ESC[96m"

\* spacing = " " * indent * 4: the number of spaces.
\* (FlatSpacing: no indentation at any depth.)
FlatSpacing(indent) == 0
Spacing(indent) == indent * IndentWidth

\* The indent an object passes on with its __dict__: its own.
\* (OneDeeper: the __dict__ is entered one level deeper.)
OneDeeper(indent) == indent + 1
AttributeViewIndent(indent) == indent

\* enumerate(data): the items with their indices, from 0.
\* (EnumerateFromOne: from 1.  EnumerateOn: from where a counter kept from
\* call to call stands.)
EnumerateOn(items) == [i \in 1..Len(items) |-> <<i - 1 + Len(call_log), items[i]>>]
EnumerateFromOne(items) == [i \in 1..Len(items) |-> <<i, items[i]>>]
Enumerate(items) == [i \in 1..Len(items) |-> <<i - 1, items[i]>>]

(***************************************************************************)
(* utils/messages.py                                                       *)
(***************************************************************************)
\* (messages_no_final_return: the closing "return True" is missing, and the
\* None that comes back is false.)
messages_no_final_return(data) == FALSE
messages_is_terminal_dict(data) ==
    IF ~IsDict(data)
    THEN FALSE
    ELSE \A i \in 1..Len(data.items) :
            LET value == data.items[i][2]
            IN  ~(IsDict(value) \/ IsList(value) \/ HasDict(value))

\* (messages_all_quoted: every value between quotes.)
messages_all_quoted(data) ==
    "{" \o Join([i \in 1..Len(data.items) |->
                    "\"" \o data.items[i][1] \o "\": \"" \o PyStr(data.items[i][2]) \o "\""])
        \o "}"
messages_format_terminal_dict(data) ==
    LET item(key, value) ==
            IF value.kind = "str"
            THEN "\"" \o key \o "\": \"" \o PyStr(value) \o "\""
            ELSE "\"" \o key \o "\": " \o PyStr(value)
    IN  "{" \o Join([i \in 1..Len(data.items) |-> item(data.items[i][1], data.items[i][2])])
            \o "}"

\* value_str = f'"{data}"' if isinstance(data, str) else str(data).
\* (messages_value_unquoted: str(data) for a str too.)
messages_value_unquoted(data) == PyStr(data)
messages_value_str(data) ==
    IF data.kind = "str" THEN "\"" \o PyStr(data) \o "\"" ELSE PyStr(data)

RECURSIVE messages__display_message_tree(_, _, _, _)
messages__display_message_tree(data, indent, node, is_root) ==
    LET spacing == Spacing(indent)
        color   == DepthColor(indent)
        RECURSIVE Entries(_)
        Entries(pairs) ==
            IF pairs = <<>> THEN <<>>
            ELSE messages__display_message_tree(Head(pairs)[2], indent + 1, Head(pairs)[1], FALSE)
                     \o Entries(Tail(pairs))
        RECURSIVE Elements(_)
        Elements(numbered) ==
            IF numbered = <<>> THEN <<>>
            ELSE <<Line(spacing + MarkerIndent, color,
                        "index [" \o IntStr(Head(numbered)[1]) \o "]", "")>>
                     \o messages__display_message_tree(Head(numbered)[2], indent + 1, None, FALSE)
                     \o Elements(Tail(numbered))
    IN  IF IsDict(data)
        THEN IF ~is_root /\ node # None
             THEN IF messages_is_terminal_dict(data)
                  THEN <<Line(spacing, color, node, ": " \o messages_format_terminal_dict(data))>>
                  ELSE <<Line(spacing, color, node, ":")>> \o Entries(data.items)
             ELSE Entries(data.items)
        ELSE IF IsList(data)
        THEN (IF ~is_root /\ node # None THEN <<Line(spacing, color, node, ":")>> ELSE <<>>)
                 \o Elements(Enumerate(data.items))
        ELSE IF HasDict(data) /\ ~is_root
        THEN (IF node # None THEN <<Line(spacing, color, node, ":")>> ELSE <<>>)
                 \o messages__display_message_tree(data.dict, AttributeViewIndent(indent), None, FALSE)
        ELSE IF node # None
             THEN <<Line(spacing, color, node, ": " \o messages_value_str(data))>>
             ELSE <<>>

\* (messages_display_labelled: the value is passed on with a label, and not
\* as the root.)
messages_display_labelled(value) ==
    messages__display_message_tree(value, 0, "message", FALSE)
messages_display_message_tree(value) ==
    IF value.kind = "BaseMessage"
    THEN messages__display_message_tree(value.dict, 0, None, TRUE)
    ELSE messages__display_message_tree(value, 0, None, TRUE)

(***************************************************************************)
(* utils/graphs.py                                                         *)
(***************************************************************************)
graphs__is_terminal_dict(data) ==
    IF ~IsDict(data)
    THEN FALSE
    ELSE \A i \in 1..Len(data.items) :
            LET value == data.items[i][2]
            IN  ~(IsDict(value) \/ IsList(value) \/ HasDict(value))

graphs__format_terminal_dict(data) ==
    LET item(key, value) == "\"" \o key \o "\": \"" \o PyStr(value) \o "\""
    IN  "{" \o Join([i \in 1..Len(data.items) |-> item(data.items[i][1], data.items[i][2])])
            \o "}"

graphs_value_str(data) ==
    IF data.kind = "str" THEN "\"" \o PyStr(data) \o "\"" ELSE PyStr(data)

RECURSIVE graphs__display_message_tree(_, _, _, _)
graphs__display_message_tree(data, indent, node, is_root) ==
    LET spacing == Spacing(indent)
        color   == DepthColor(indent)
        RECURSIVE Entries(_)
        Entries(pairs) ==
            IF pairs = <<>> THEN <<>>
            ELSE graphs__display_message_tree(Head(pairs)[2], indent + 1, Head(pairs)[1], FALSE)
                     \o Entries(Tail(pairs))
        RECURSIVE Elements(_)
        Elements(numbered) ==
            IF numbered = <<>> THEN <<>>
            ELSE <<Line(spacing + GraphsMarkerIndent, color,
                        "index [" \o IntStr(Head(numbered)[1]) \o "]", "")>>
                     \o graphs__display_message_tree(Head(numbered)[2], indent + 1, None, FALSE)
                     \o Elements(Tail(numbered))
    IN  IF IsDict(data)
        THEN IF ~is_root /\ node # None
             THEN IF graphs__is_terminal_dict(data)
                  THEN <<Line(spacing, color, node, ": " \o graphs__format_terminal_dict(data))>>
                  ELSE <<Line(spacing, color, node, ":")>> \o Entries(data.items)
             ELSE Entries(data.items)
        ELSE IF IsList(data)
        THEN (IF ~is_root /\ node # None THEN <<Line(spacing, color, node, ":")>> ELSE <<>>)
                 \o Elements(Enumerate(data.items))
        ELSE IF HasDict(data) /\ ~is_root
        THEN (IF node # None THEN <<Line(spacing, color, node, ":")>> ELSE <<>>)
                 \o graphs__display_message_tree(data.dict, AttributeViewIndent(indent), None, FALSE)
        ELSE IF node # None
             THEN <<Line(spacing, color, node, ": " \o graphs_value_str(data))>>
             ELSE <<>>

graphs_display_message_tree(value) ==
    IF value.kind = "BaseMessage"
    THEN graphs__display_message_tree(value.dict, 0, None, TRUE)
    ELSE graphs__display_message_tree(value, 0, None, TRUE)

(***************************************************************************)
(* A caller builds a value (list.append, d[key] = value, setattr) and has  *)
(* it rendered by one of the two modules.                                  *)
(***************************************************************************)
IsContainer(value) == IsDict(value) \/ IsList(value) \/ HasDict(value)

\* The values held by a container, in order.
Children(value) ==
    IF IsList(value) THEN value.items
    ELSE IF IsDict(value) THEN [i \in 1..Len(value.items) |-> value.items[i][2]]
    ELSE IF HasDict(value) THEN [i \in 1..Len(value.dict.items) |-> value.dict.items[i][2]]
    ELSE <<>>

\* The keys of a dict, or of the __dict__ of an object.
KeysOf(value) ==
    IF IsDict(value) THEN { value.items[i][1] : i \in 1..Len(value.items) }
    ELSE IF HasDict(value) THEN { value.dict.items[i][1] : i \in 1..Len(value.dict.items) }
    ELSE {}

RECURSIVE Size(_)
Size(value) ==
    LET kids == Children(value)
        RECURSIVE Sum(_)
        Sum(i) == IF i = 0 THEN 0 ELSE Size(kids[i]) + Sum(i - 1)
    IN  1 + Sum(Len(kids))

\* The containers of a value, each as the path of child positions to it.
RECURSIVE ContainerPaths(_)
ContainerPaths(value) ==
    IF ~IsContainer(value)
    THEN {}
    ELSE LET kids == Children(value)
         IN  { <<>> } \cup UNION { { <<i>> \o p : p \in ContainerPaths(kids[i]) } :
                                  i \in 1..Len(kids) }

\* The container at a path.
RECURSIVE At(_, _)
At(value, path) ==
    IF path = <<>> THEN value ELSE At(Children(value)[Head(path)], Tail(path))

\* value.append(leaf), value[key] = leaf or setattr(value, key, leaf).
Added(value, key, leaf) ==
    IF IsList(value) THEN [value EXCEPT !.items = Append(@, leaf)]
    ELSE IF IsDict(value) THEN [value EXCEPT !.items = Append(@, <<key, leaf>>)]
    ELSE [value EXCEPT !.dict.items = Append(@, <<key, leaf>>)]

\* The same, on the container at a path of the value.
RECURSIVE AddedAt(_, _, _, _)
AddedAt(value, path, key, leaf) ==
    IF path = <<>>
    THEN Added(value, key, leaf)
    ELSE LET i == Head(path)
             sub == AddedAt(Children(value)[i], Tail(path), key, leaf)
         IN  IF IsList(value) THEN [value EXCEPT !.items[i] = sub]
             ELSE IF IsDict(value) THEN [value EXCEPT !.items[i][2] = sub]
             ELSE [value EXCEPT !.dict.items[i][2] = sub]

\* No chat turn is under way.
TurnIdle == InitTurn

InitTree ==
    /\ TurnIdle
    /\ OthersIdle
    /\ message \in Roots
    /\ rendered_by = "none"
    /\ stdout = <<>>

\* The caller adds a leaf to a container of the value: a new key of a dict
\* or of an object, a new last element of a list.
AddNodeOf(leaves) ==
    /\ rendered_by = "none"
    /\ Size(message) < MaxNodes
    /\ \E path \in ContainerPaths(message), leaf \in leaves, key \in Keys :
          /\ key \notin KeysOf(At(message, path))
          /\ message' = AddedAt(message, path, key, leaf)
    /\ UNCHANGED <<rendered_by, stdout, turn_vars, other_vars>>

AddNode == AddNodeOf(Leaves)

DisplayMessages ==
    /\ rendered_by = "none"
    /\ stdout' = messages_display_message_tree(message)
    /\ rendered_by' = "messages"
    /\ UNCHANGED <<message, turn_vars, other_vars>>

DisplayGraphs ==
    /\ rendered_by = "none"
    /\ stdout' = graphs_display_message_tree(message)
    /\ rendered_by' = "graphs"
    /\ UNCHANGED <<message, turn_vars, other_vars>>

NextTree == AddNode \/ DisplayMessages \/ DisplayGraphs

SpecTree == InitTree /\ [][NextTree]_vars

(***************************************************************************)
(* What the renderers are checked against.                                 *)
(***************************************************************************)
\* A call _display_message_tree(data, indent, node, is_root), and what its
\* data is to the caller: the root, the value of a mapping entry, an
\* element of a sequence, or the __dict__ of an object.
Call(data, indent, node, is_root, via) ==
    [data |-> data, indent |-> indent, node |-> node, is_root |-> is_root, via |-> via]

IsPrimitive(value) == value.kind \in {"str", "int", "NoneType", "opaque"}

\* A mapping all of whose values are primitives.
IsLeafMapping(value) ==
    IsDict(value) /\ \A i \in 1..Len(value.items) : IsPrimitive(value.items[i][2])

\* The calls made while a call runs, itself included: a mapping printed
\* on one line is not entered, any other mapping and any sequence is entered
\* one level deeper, an object is entered through its __dict__.
RECURSIVE CallsOf(_)
CallsOf(c) ==
    LET data == c.data
        one_line == IsLeafMapping(data) /\ ~c.is_root /\ c.node # None
    IN  { c } \cup
        (IF IsDict(data) /\ ~one_line
         THEN UNION { CallsOf(Call(data.items[i][2], c.indent + 1, data.items[i][1], FALSE, "entry")) :
                      i \in 1..Len(data.items) }
         ELSE IF IsList(data)
         THEN UNION { CallsOf(Call(data.items[i], c.indent + 1, None, FALSE, "element")) :
                      i \in 1..Len(data.items) }
         ELSE IF HasDict(data) /\ ~c.is_root
         THEN CallsOf(Call(data.dict, c.indent, None, FALSE, "__dict__"))
         ELSE {})

\* The call display_message_tree makes.
RootCall(value) ==
    IF value.kind = "BaseMessage"
    THEN Call(value.dict, 0, None, TRUE, "root")
    ELSE Call(value, 0, None, TRUE, "root")

\* A value has been rendered.
Rendered == rendered_by # "none"

\* What the module that rendered prints for a call.
Printed(c) ==
    IF rendered_by = "graphs"
    THEN graphs__display_message_tree(c.data, c.indent, c.node, c.is_root)
    ELSE messages__display_message_tree(c.data, c.indent, c.node, c.is_root)

\* The calls reached in the rendering of the message.
Reached == CallsOf(RootCall(message))

\* The header line of a call.
Header(c) == Line(c.indent * IndentWidth, DepthColor(c.indent), c.node, ":")

\* What the entries of a mapping print, one level below the call.
RECURSIVE EntriesPrinted(_, _)
EntriesPrinted(c, n) ==
    IF n = 0
    THEN <<>>
    ELSE EntriesPrinted(c, n - 1)
             \o Printed(Call(c.data.items[n][2], c.indent + 1, c.data.items[n][1], FALSE, "entry"))

\* C8 as claimed: a mapping reached at a non-root position, as the value
\* of an entry or as an element of a sequence, prints one line when all its
\* values are primitives, and otherwise a header line for its label and then
\* its entries one level deeper.
C8_NonRootMappings ==
    Rendered =>
        \A c \in Reached :
            (IsDict(c.data) /\ ~c.is_root /\ c.via \in {"entry", "element"}) =>
                IF IsLeafMapping(c.data)
                THEN Len(Printed(c)) = 1
                ELSE Printed(c) = <<Header(c)>> \o EntriesPrinted(c, Len(c.data.items))

\* C8, amended: the two forms are those of a mapping reached with a label,
\* as the value of a mapping entry or of an attribute; a mapping reached
\* without one (an element of a sequence, the __dict__ of an object, the
\* root) prints no line of its own, only its entries one level deeper.
C8_LabelledMappings ==
    Rendered =>
        /\ stdout = Printed(RootCall(message))
        /\ \A c \in Reached :
              IsDict(c.data) =>
                  IF c.is_root \/ c.node = None
                  THEN Printed(c) = EntriesPrinted(c, Len(c.data.items))
                  ELSE IF IsLeafMapping(c.data)
                  THEN /\ Len(Printed(c)) = 1
                       /\ Printed(c)[1].label = c.node
                       /\ Printed(c)[1].spaces = c.indent * IndentWidth
                  ELSE Printed(c) = <<Header(c)>> \o EntriesPrinted(c, Len(c.data.items))

\* C8 witness: a mapping of two primitives under the key a of the root,
\* printed by utils/messages.py on one line.
C8_Witness ==
    /\ rendered_by = "messages"
    /\ message = DictValue(<< <<"a", DictValue(<< <<"a", IntValue(1)>>, <<"b", StrValue("x")>> >>)>> >>)
    /\ Len(stdout) = 1
    /\ stdout[1].label = "a"
    /\ stdout[1].spaces = IndentWidth

\* The one-line text of a leaf mapping, from its last entry back: the
\* pairs "key": value, joined by a comma and a space, between braces.  A
\* str is put between double quotes; with quote_all, so is any other value.
RECURSIVE PairsText(_, _, _)
PairsText(pairs, n, quote_all) ==
    LET value == pairs[n][2]
        pair  == "\"" \o pairs[n][1] \o "\": "
                     \o (IF quote_all \/ value.kind = "str"
                         THEN "\"" \o PyStr(value) \o "\""
                         ELSE PyStr(value))
    IN  IF n = 0 THEN ""
        ELSE IF n = 1 THEN pair
        ELSE PairsText(pairs, n - 1, quote_all) \o ", " \o pair

LeafText(data, quote_all) ==
    "{" \o PairsText(data.items, Len(data.items), quote_all) \o "}"

\* The calls that print a leaf mapping on one line.
OneLineCalls == { c \in Reached : IsLeafMapping(c.data) /\ ~c.is_root /\ c.node # None }

\* C9 as claimed: in both modules the line of a leaf mapping shows a str
\* between double quotes and any other value bare.
C9_StringsQuotedOnly ==
    Rendered =>
        \A c \in OneLineCalls :
            /\ Len(Printed(c)) = 1
            /\ Printed(c)[1].rest = ": " \o LeafText(c.data, FALSE)

\* C9, amended: utils/messages.py shows a str between double quotes and any
\* other value bare; utils/graphs.py shows every value, str or not, between
\* double quotes.  Both list the entries in iteration order.
C9_LeafMappingText ==
    Rendered =>
        \A c \in OneLineCalls :
            /\ Len(Printed(c)) = 1
            /\ Printed(c)[1].rest =
                  (IF rendered_by = "messages"
                   THEN ": " \o LeafText(c.data, FALSE)
                   ELSE ": " \o LeafText(c.data, TRUE))

\* C9 witness: utils/messages.py has printed the mapping {"b": "x", "a": 1},
\* held under the key a, in that order.
C9_Witness ==
    /\ rendered_by = "messages"
    /\ message = DictValue(<< <<"a", DictValue(<< <<"b", StrValue("x")>>, <<"a", IntValue(1)>> >>)>> >>)
    /\ stdout = << Line(IndentWidth, DepthColor(1), "a", ": {\"b\": \"x\", \"a\": 1}") >>

\* What a sequence prints after its header: for each element from the
\* first, a marker with the element's index, indented by the given number of
\* spaces, and then the element one level deeper, with no label.
RECURSIVE ElementsPrinted(_, _, _)
ElementsPrinted(c, n, marker_spaces) ==
    IF n = 0
    THEN <<>>
    ELSE ElementsPrinted(c, n - 1, marker_spaces)
             \o << Line(marker_spaces, DepthColor(c.indent), "index [" \o IntStr(n - 1) \o "]", "") >>
             \o Printed(Call(c.data.items[n], c.indent + 1, None, FALSE, "element"))

HeaderIfLabelled(c) == IF c.node # None THEN <<Header(c)>> ELSE <<>>

\* C10 as claimed: the markers of a sequence at depth d begin with the
\* indentation of depth d, that of the header of the sequence.
C10_MarkersAtHeaderIndent ==
    Rendered =>
        \A c \in Reached :
            IsList(c.data) =>
                Printed(c) = HeaderIfLabelled(c)
                                 \o ElementsPrinted(c, Len(c.data.items), c.indent * IndentWidth)

\* C10, amended: a sequence at depth d prints a header line when it has a
\* label, then for each element in order a marker index [i] and the element
\* at depth d+1 with no label; the marker has the colour of depth d and is
\* indented 4 spaces more than the header by utils/messages.py, 3 spaces
\* more by utils/graphs.py.
C10_SequenceMarkers ==
    Rendered =>
        \A c \in Reached :
            IsList(c.data) =>
                Printed(c) = HeaderIfLabelled(c)
                                 \o ElementsPrinted(c, Len(c.data.items),
                                        c.indent * IndentWidth
                                            + (IF rendered_by = "messages" THEN 4 ELSE 3))

\* C10 witness: utils/messages.py has printed a sequence of an empty
\* sequence and a str, held under the key a: a header and two markers, 4
\* spaces further in than the header.
C10_Witness ==
    /\ rendered_by = "messages"
    /\ message = DictValue(<< <<"a", ListValue(<< ListValue(<<>>), StrValue("x") >>)>> >>)
    /\ stdout = << Line(4, DepthColor(1), "a", ":"),
                   Line(8, DepthColor(1), "index [0]", ""),
                   Line(8, DepthColor(1), "index [1]", "") >>

\* The text of a primitive on its line: a str between double quotes, any
\* other value as str() gives it.
ValueText(data) ==
    IF data.kind = "str" THEN "\"" \o data.s \o "\"" ELSE PyStr(data)

\* The calls on a sequence that has elements, all of them primitives.
PrimitiveSequences ==
    { c \in Reached : /\ IsList(c.data)
                      /\ c.data.items # <<>>
                      /\ \A i \in 1..Len(c.data.items) : IsPrimitive(c.data.items[i]) }

\* C11 as claimed: a sequence of primitives prints, after its header if it
\* has a label, for each element its marker index [i] and then a line that
\* shows the element's value: one marker and one value line for each element.
C11_MarkerAndValueLines ==
    Rendered =>
        \A c \in PrimitiveSequences :
            LET h   == Len(HeaderIfLabelled(c))
                n   == Len(c.data.items)
                out == Printed(c)
            IN  /\ Len(out) = h + 2 * n
                /\ \A i \in 1..n :
                      /\ out[h + 2 * i - 1].label = "index [" \o IntStr(i - 1) \o "]"
                      /\ out[h + 2 * i].rest = ": " \o ValueText(c.data.items[i])

\* What the code does on such a sequence: the markers alone are printed, one
\* for each element, and no line shows a value.
C11_MarkersOnly ==
    Rendered =>
        \A c \in PrimitiveSequences :
            LET h   == Len(HeaderIfLabelled(c))
                n   == Len(c.data.items)
                out == Printed(c)
            IN  /\ Len(out) = h + n
                /\ \A i \in 1..n :
                      /\ out[h + i].label = "index [" \o IntStr(i - 1) \o "]"
                      /\ out[h + i].rest = ""

\* C11 witness: utils/messages.py has printed the sequence ["x", 1] passed
\* as the root: two markers and nothing else.
C11_Witness ==
    /\ rendered_by = "messages"
    /\ message = ListValue(<< StrValue("x"), IntValue(1) >>)
    /\ stdout = << Line(4, DepthColor(0), "index [0]", ""),
                   Line(4, DepthColor(0), "index [1]", "") >>

\* A line is among those printed.
IsPrintedLine(line) == \E k \in 1..Len(stdout) : stdout[k] = line

\* C12: in both modules a primitive reached with a label prints exactly one
\* line, label: value, at the indentation of its depth, a str between double
\* quotes and any other value as str() gives it, and that line is in the
\* output; a primitive reached with no label prints nothing.
C12_PrimitiveLines ==
    Rendered =>
        \A c \in Reached :
            IsPrimitive(c.data) =>
                IF c.node # None
                THEN /\ Printed(c) = << Line(4 * c.indent, DepthColor(c.indent), c.node,
                                             ": " \o ValueText(c.data)) >>
                     /\ IsPrintedLine(Printed(c)[1])
                ELSE Printed(c) = <<>>

\* C12 witness: utils/graphs.py has printed a mapping with a str and, in a
\* sequence, a value that has no label: two lines and one marker.
C12_Witness ==
    /\ rendered_by = "graphs"
    /\ message = DictValue(<< <<"a", StrValue("x")>>, <<"b", ListValue(<< OpaqueValue >>)>> >>)
    /\ stdout = << Line(4, DepthColor(1), "a", ": \"x\""),
                   Line(4, DepthColor(1), "b", ":"),
                   Line(7, DepthColor(1), "index [0]", "") >>

\* The calls on an object with a __dict__ that is not the root.
ObjectCalls == { c \in Reached : HasDict(c.data) /\ ~c.is_root }

\* What the attributes of an object print when each is rendered at a depth.
RECURSIVE AttributesPrinted(_, _, _)
AttributesPrinted(c, n, depth) ==
    IF n = 0
    THEN <<>>
    ELSE AttributesPrinted(c, n - 1, depth)
             \o Printed(Call(c.data.dict.items[n][2], depth, c.data.dict.items[n][1], FALSE, "entry"))

\* C13 as claimed: an object at depth d, not the root, prints a header line
\* for its label when it has one, and then its attributes at depth d, the
\* depth of its own header.
C13_AttributesAtSameDepth ==
    Rendered =>
        \A c \in ObjectCalls :
            Printed(c) = HeaderIfLabelled(c)
                             \o AttributesPrinted(c, Len(c.data.dict.items), c.indent)

\* C13, amended: the object passes its __dict__ on with its own depth d, and
\* the __dict__, a mapping reached with no label, prints its entries one
\* level deeper: the attribute lines are at depth d + 1, below the header.
C13_AttributesOneDeeper ==
    Rendered =>
        \A c \in ObjectCalls :
            /\ Call(c.data.dict, c.indent, None, FALSE, "__dict__") \in Reached
            /\ Printed(c) = HeaderIfLabelled(c)
                                \o AttributesPrinted(c, Len(c.data.dict.items), c.indent + 1)

\* C13 witness: utils/messages.py has printed an object with one attribute,
\* held under the key a: its header at 4 spaces, its attribute at 8.
C13_Witness ==
    /\ rendered_by = "messages"
    /\ message = DictValue(<< <<"a", ObjectValue(<< <<"b", IntValue(1)>> >>)>> >>)
    /\ stdout = << Line(4, DepthColor(1), "a", ":"),
                   Line(8, DepthColor(2), "b", ": 1") >>

\* C14: a mapping passed as the root (the __dict__ of a message is one)
\* prints no header and no single line for itself, also when all its values
\* are primitives: the output is that of its entries, in iteration order,
\* each at depth 1 with its key as label, so that every line is indented by
\* at least 4 spaces and a mapping of primitives prints one line for each
\* entry, labelled with its key.
C14_RootMapping ==
    LET root == RootCall(message)
        n    == Len(root.data.items)
    IN  (Rendered /\ IsDict(root.data)) =>
            /\ stdout = EntriesPrinted(root, n)
            /\ \A k \in 1..Len(stdout) : stdout[k].spaces >= 4
            /\ IsLeafMapping(root.data) =>
                  /\ Len(stdout) = n
                  /\ \A i \in 1..n :
                        stdout[i] = Line(4, DepthColor(1), root.data.items[i][1],
                                         ": " \o ValueText(root.data.items[i][2]))

\* C14 witness: utils/messages.py has printed the mapping {"b": 1, "a": "x"}
\* passed as the root: one line for each entry, in that order.
C14_Witness ==
    /\ rendered_by = "messages"
    /\ message = DictValue(<< <<"b", IntValue(1)>>, <<"a", StrValue("x")>> >>)
    /\ stdout = << Line(4, DepthColor(1), "b", ": 1"),
                   Line(4, DepthColor(1), "a", ": \"x\"") >>

\* The line a call prints for its label: the first one, when it has a label.
LabelLines(c) == IF c.node # None THEN << Printed(c)[1] >> ELSE <<>>

\* The markers among the lines a call on a sequence printed, from that of
\* the n-th element on, which is at a position: each marker is followed by
\* what the call on its element prints.
RECURSIVE MarkersFrom(_, _, _, _)
MarkersFrom(out, c, n, position) ==
    IF n > Len(c.data.items)
    THEN <<>>
    ELSE << out[position] >>
             \o MarkersFrom(out, c, n + 1,
                    position + 1
                        + Len(Printed(Call(c.data.items[n], c.indent + 1, None, FALSE, "element"))))

\* The markers a call on a sequence prints, one for each element.
MarkerLines(c) ==
    IF IsList(c.data)
    THEN MarkersFrom(Printed(c), c, 1, Len(HeaderIfLabelled(c)) + 1)
    ELSE <<>>

\* The lines of a sequence, as a set.
Range(lines) == { lines[k] : k \in 1..Len(lines) }

\* C19 as claimed: in both modules every line printed for a node at depth
\* d, its header, single line or primitive line and the markers of its
\* elements, begins with exactly 4 * d spaces.
C19_FourSpacesPerDepth ==
    Rendered =>
        \A c \in Reached :
            /\ \A line \in Range(LabelLines(c)) : line.spaces = 4 * c.indent
            /\ \A line \in Range(MarkerLines(c)) : line.spaces = 4 * c.indent

\* C19, amended: the header, single line or primitive line of a node at
\* depth d begins with exactly 4 * d spaces in both modules; the markers of
\* the elements of a sequence at depth d begin with 4 * d + 4 spaces in
\* utils/messages.py and with 4 * d + 3 spaces in utils/graphs.py.  Every
\* line printed is one of these.
C19_IndentationOfLines ==
    Rendered =>
        /\ \A c \in Reached :
              LET labels  == LabelLines(c)
                  markers == MarkerLines(c)
              IN  /\ \A k \in 1..Len(labels) :
                        /\ labels[k].label = c.node
                        /\ labels[k].spaces = 4 * c.indent
                  /\ \A k \in 1..Len(markers) :
                        /\ markers[k].label = "index [" \o IntStr(k - 1) \o "]"
                        /\ markers[k].spaces =
                              4 * c.indent + (IF rendered_by = "messages" THEN 4 ELSE 3)
        /\ Range(stdout) \subseteq
              UNION { Range(LabelLines(c)) \cup Range(MarkerLines(c)) : c \in Reached }

\* C19 witness: utils/graphs.py has printed a sequence held under the key a
\* that holds a mapping: the header at 4 spaces, the marker at 7, the entry
\* of the mapping, two levels below the sequence, at 12.
C19_Witness ==
    /\ rendered_by = "graphs"
    /\ message = DictValue(<< <<"a", ListValue(<< DictValue(<< <<"b", NoneValue>> >>) >>)>> >>)
    /\ stdout = << Line(4, DepthColor(1), "a", ":"),
                   Line(7, DepthColor(1), "index [0]", ""),
                   Line(12, DepthColor(3), "b", ": None") >>

\* What the module that rendered prints for the attribute view of the
\* message, passed as the root: the lines of a BaseMessage of these
\* attributes.
AttributeViewPrinted == Printed(Call(message.dict, 0, None, TRUE, "root"))

\* C21 as claimed: an object with a __dict__ passed to display_message_tree
\* is rendered through its attribute view, as a BaseMessage of the same
\* attributes is: no header, and each attribute rendered; the output is
\* empty only when the object has no attributes.
C21_RootObjectByAttributeView ==
    (Rendered /\ message.kind = "object") =>
        /\ stdout = AttributeViewPrinted
        /\ stdout = <<>> => message.dict.items = <<>>

\* C21, what the code does: an object with a __dict__ that is no
\* BaseMessage, passed to display_message_tree, is not entered: nothing is
\* printed, whatever its attributes, while a BaseMessage of the same
\* attributes prints a line for each.
C21_RootObjectPrintsNothing ==
    Rendered =>
        /\ message.kind = "object" => stdout = <<>>
        /\ (message.kind = "BaseMessage" /\ message.dict.items # <<>>) => stdout # <<>>

\* C21 witness: utils/messages.py has rendered an object of two attributes,
\* one of them a mapping, and has printed nothing.
C21_Witness ==
    /\ rendered_by = "messages"
    /\ message = ObjectValue(<< <<"a", IntValue(1)>>,
                                <<"b", DictValue(<< <<"a", StrValue("x")>> >>)>> >>)
    /\ AttributeViewPrinted # <<>>
    /\ stdout = <<>>

\* The labels of index markers.
MarkerLabels == { "index [" \o IntStr(index) \o "]" : index \in 0..9 }

\* C28 as claimed: utils/graphs.py and utils/messages.py print the same
\* lines for every value: the same labels, indentation and value text.
C28_SameLinesInBothModules ==
    rendered_by = "graphs" => stdout = messages_display_message_tree(message)

\* C28, amended: for every value the two modules print the same number of
\* lines, line by line with the same label and colour; a line other than an
\* index marker has the same indentation in both, and an index marker has
\* one space less in utils/graphs.py; the text after the label is the same
\* unless the line is that of a mapping printed on one line, which
\* utils/graphs.py prints with every value between quotes and
\* utils/messages.py with only the str values between quotes.
C28_SameLinesButMarkersAndOneLineValues ==
    rendered_by = "graphs" =>
        LET by_messages == messages_display_message_tree(message)
        IN  /\ Len(stdout) = Len(by_messages)
            /\ \A k \in 1..Len(stdout) :
                  /\ stdout[k].label = by_messages[k].label
                  /\ stdout[k].color = by_messages[k].color
                  /\ IF stdout[k].label \in MarkerLabels /\ stdout[k].rest = ""
                     THEN stdout[k].spaces + 1 = by_messages[k].spaces
                     ELSE stdout[k].spaces = by_messages[k].spaces
                  /\ \/ stdout[k].rest = by_messages[k].rest
                     \/ \E c \in OneLineCalls :
                           /\ c.node = stdout[k].label
                           /\ stdout[k].spaces = IndentWidth * c.indent
                           /\ stdout[k].rest = ": " \o graphs__format_terminal_dict(c.data)
                           /\ by_messages[k].rest = ": " \o messages_format_terminal_dict(c.data)

\* C28 witness: utils/graphs.py has printed a sequence that holds a
\* mapping whose entry a is a mapping with an int: the marker and the
\* one-line mapping differ from what utils/messages.py prints.
C28_Witness ==
    /\ rendered_by = "graphs"
    /\ message = ListValue(<< DictValue(<< <<"a", DictValue(<< <<"b", IntValue(1)>> >>)>> >>) >>)
    /\ stdout = << Line(3, DepthColor(0), "index [0]", ""),
                   Line(8, DepthColor(2), "a", ": {\"b\": \"1\"}") >>
    /\ messages_display_message_tree(message) =
          << Line(4, DepthColor(0), "index [0]", ""),
             Line(8, DepthColor(2), "a", ": {\"b\": 1}") >>

(***************************************************************************)
(* A caller builds a value and calls display_message_tree on it, then on   *)
(* other values and on the same value again, in any order.                 *)
(***************************************************************************)
\* display_message_tree calls of one caller.
MaxCalls == 3

Modules == {"messages", "graphs"}

\* display_message_tree of a module.
DisplayedBy(module, value) ==
    IF module = "graphs"
    THEN graphs_display_message_tree(value)
    ELSE messages_display_message_tree(value)

\* The values the caller renders between two calls on the message.
OtherValues ==
    { ListValue(<< ListValue(<<>>) >>), DictValue(<< <<"a", IntValue(1)>> >>) }

\* What the caller builds the message from.
CallLeaves == { StrValue("x"), ListValue(<<>>), DictValue(<<>>), ObjectValue(<<>>) }

beside_calls == <<turn_vars, heap_vars, accumulator_vars, environ_vars, further_vars>>

InitCalls ==
    /\ TurnIdle
    /\ OthersIdle
    /\ message \in { ListValue(<<>>), DictValue(<<>>), MessageValue(<<>>) }
    /\ rendered_by = "none"
    /\ stdout = <<>>

BuildMessage == AddNodeOf(CallLeaves)

\* The first call: display_message_tree(message), of either module.
DisplayFirst ==
    /\ call_log = <<>>
    /\ \E module \in Modules :
          /\ rendered_by' = module
          /\ stdout' = DisplayedBy(module, message)
          /\ first_stdout' = DisplayedBy(module, message)
    /\ call_log' = <<"message">>
    /\ UNCHANGED <<message, beside_calls>>

\* A later call on another value, by either module.
DisplayOther ==
    /\ call_log # <<>>
    /\ Len(call_log) < MaxCalls
    /\ \E module \in Modules, other \in OtherValues :
          stdout' = DisplayedBy(module, other)
    /\ call_log' = Append(call_log, "other")
    /\ UNCHANGED <<message, rendered_by, first_stdout, beside_calls>>

\* A later call on the message, by the module of the first call.
DisplayAgain ==
    /\ call_log # <<>>
    /\ Len(call_log) < MaxCalls
    /\ stdout' = DisplayedBy(rendered_by, message)
    /\ call_log' = Append(call_log, "message")
    /\ UNCHANGED <<message, rendered_by, first_stdout, beside_calls>>

NextCalls == BuildMessage \/ DisplayFirst \/ DisplayOther \/ DisplayAgain

SpecCalls == InitCalls /\ [][NextCalls]_vars

RecursionLimit == 3

HeapKinds == {"dict", "list", "object"}

RootKinds == HeapKinds \cup {"BaseMessage"}

HeapPrimitives == { StrValue("x"), OpaqueValue }

Ref(addr) == [kind |-> "ref", addr |-> addr]

DictOf(addr) == [kind |-> "__dict__", addr |-> addr]

EmptyContainer(kind) == [kind |-> kind, items |-> <<>>]

\* The type of a value, through the reference if it is one.
TypeOf(value) ==
    IF value.kind = "ref" THEN heap[value.addr].kind
    ELSE IF value.kind = "__dict__" THEN "dict"
    ELSE value.kind

\* (NoItems: every container is taken to be empty.)
NoItems(value) == <<>>
ItemsOf(value) == heap[value.addr].items

\* is_terminal_dict, on the heap: no value of the dict is a container.
heap_is_terminal_dict(data) ==
    IF TypeOf(data) # "dict"
    THEN FALSE
    ELSE \A i \in 1..Len(ItemsOf(data)) :
            TypeOf(ItemsOf(data)[i][2]) \notin RootKinds

Frame(data, indent, node, is_root) ==
    [data |-> data, indent |-> indent, node |-> node, is_root |-> is_root, next |-> 0]

\* The calls the body of a frame makes, in order: the entries of a dict and
\* the elements of a list one level deeper, the __dict__ of an object.
CallsFrom(frame) ==
    LET items == ItemsOf(frame.data)
    IN  IF TypeOf(frame.data) = "dict"
        THEN [i \in 1..Len(items) |-> Frame(items[i][2], frame.indent + 1, items[i][1], FALSE)]
        ELSE IF TypeOf(frame.data) = "list"
        THEN [i \in 1..Len(items) |-> Frame(items[i], frame.indent + 1, None, FALSE)]
        ELSE IF TypeOf(frame.data) \in {"object", "BaseMessage"} /\ ~frame.is_root
        THEN << Frame(DictOf(frame.data.addr), AttributeViewIndent(frame.indent), None, FALSE) >>
        ELSE <<>>

\* (LimitOfOne: a single call exhausts the stack.)
LimitOfOne(depth) == depth >= 1
RecursionLimitReached(depth) == depth >= RecursionLimit

\* Items stored in the containers of a heap.
RECURSIVE ItemCount(_)
ItemCount(containers) ==
    IF containers = <<>> THEN 0
    ELSE Len(Head(containers).items) + ItemCount(Tail(containers))

\* container.append(value), container[key] = value, setattr(container, key, value).
Put(containers, addr, key, value) ==
    IF containers[addr].kind = "list"
    THEN [containers EXCEPT ![addr].items = Append(@, value)]
    ELSE [containers EXCEPT ![addr].items = Append(@, <<key, value>>)]

\* The keys a container can take a new item under (a list takes any).
FreeKeys(container) ==
    IF container.kind = "list"
    THEN {"a"}
    ELSE Keys \ { container.items[i][1] : i \in 1..Len(container.items) }

beside_heap == <<turn_vars, message, rendered_by, calls_vars, accumulator_vars, environ_vars,
                 further_vars>>

InitHeap ==
    /\ TurnIdle
    /\ CallsIdle /\ AccumulatorIdle /\ EnvironIdle /\ FurtherIdle
    /\ message = NoneValue
    /\ rendered_by = "none"
    /\ stdout = <<>>
    /\ heap \in { << EmptyContainer(kind) >> : kind \in RootKinds }
    /\ stack = <<>>
    /\ outcome = "building"
    /\ visited = <<>>

\* The caller stores a primitive, or a reference to a container there is.
StoreValue ==
    /\ outcome = "building"
    /\ ItemCount(heap) + 1 < MaxNodes
    /\ \E addr \in 1..Len(heap) :
          \E key \in FreeKeys(heap[addr]) :
              \E value \in HeapPrimitives \cup { Ref(b) : b \in 1..Len(heap) } :
                  heap' = Put(heap, addr, key, value)
    /\ UNCHANGED <<stack, outcome, visited, stdout, beside_heap>>

\* The caller stores a new, empty container.
StoreNew ==
    /\ outcome = "building"
    /\ ItemCount(heap) + 1 < MaxNodes
    /\ \E addr \in 1..Len(heap) :
          \E key \in FreeKeys(heap[addr]) :
              \E kind \in HeapKinds :
                  heap' = Append(Put(heap, addr, key, Ref(Len(heap) + 1)), EmptyContainer(kind))
    /\ UNCHANGED <<stack, outcome, visited, stdout, beside_heap>>

\* display_message_tree(message), message at address 1: the first call of
\* _display_message_tree, on the __dict__ of a BaseMessage or on the value.
CallDisplay ==
    /\ outcome = "building"
    /\ stack' = << Frame(IF heap[1].kind = "BaseMessage" THEN DictOf(1) ELSE Ref(1),
                         0, None, TRUE) >>
    /\ outcome' = "running"
    /\ UNCHANGED <<heap, visited, stdout, beside_heap>>

Top == stack[Len(stack)]

Popped == SubSeq(stack, 1, Len(stack) - 1)

\* The body of the call on top runs up to its first call: it prints its
\* header, or its one line and returns.
EnterBody ==
    /\ outcome = "running"
    /\ Top.next = 0
    /\ LET data     == Top.data
           spacing  == Spacing(Top.indent)
           color    == DepthColor(Top.indent)
           labelled == ~Top.is_root /\ Top.node # None
           header   == IF labelled THEN << Line(spacing, color, Top.node, ":") >> ELSE <<>>
           entered  == [stack EXCEPT ![Len(stack)].next = 1]
       IN  IF TypeOf(data) = "dict" /\ labelled /\ heap_is_terminal_dict(data)
           THEN /\ stdout' = Append(stdout,
                                Line(spacing, color, Top.node,
                                     ": " \o messages_format_terminal_dict(DictValue(ItemsOf(data)))))
                /\ visited' = visited \o [i \in 1..Len(ItemsOf(data)) |-> <<data.addr, i>>]
                /\ stack' = Popped
           ELSE IF TypeOf(data) \in {"dict", "list"}
           THEN /\ stdout' = stdout \o header
                /\ stack' = entered
                /\ UNCHANGED visited
           ELSE IF TypeOf(data) \in {"object", "BaseMessage"} /\ ~Top.is_root
           THEN /\ stdout' = stdout \o (IF Top.node # None
                                        THEN << Line(spacing, color, Top.node, ":") >>
                                        ELSE <<>>)
                /\ stack' = entered
                /\ UNCHANGED visited
           ELSE /\ stdout' = IF Top.node # None
                             THEN Append(stdout, Line(spacing, color, Top.node,
                                                      ": " \o messages_value_str(data)))
                             ELSE stdout
                /\ stack' = Popped
                /\ UNCHANGED visited
    /\ outcome' = IF stack' = <<>> THEN "returned" ELSE "running"
    /\ UNCHANGED <<heap, beside_heap>>

\* The marker a list prints before the call on an element.
MarkerBefore(frame) ==
    IF TypeOf(frame.data) = "list"
    THEN << Line(Spacing(frame.indent) + MarkerIndent, DepthColor(frame.indent),
                 "index [" \o IntStr(frame.next - 1) \o "]", "") >>
    ELSE <<>>

\* The item of a container that the next call of a frame is on: an entry
\* of a dict, an element of a list, an attribute of the object whose
\* __dict__ the frame is on; the call on the __dict__ is on no item.
ItemCalled(frame) ==
    IF TypeOf(frame.data) \in {"dict", "list"}
    THEN << <<frame.data.addr, frame.next>> >>
    ELSE <<>>

\* The body on top makes its next call.
CallNext ==
    /\ outcome = "running"
    /\ Top.next \in 1..Len(CallsFrom(Top))
    /\ ~RecursionLimitReached(Len(stack))
    /\ stdout' = stdout \o MarkerBefore(Top)
    /\ stack' = Append([stack EXCEPT ![Len(stack)].next = @ + 1], CallsFrom(Top)[Top.next])
    /\ visited' = visited \o ItemCalled(Top)
    /\ UNCHANGED <<heap, outcome, beside_heap>>

\* The next call would be one too many: the interpreter raises
\* RecursionError, which nothing catches.
RaiseRecursionError ==
    /\ outcome = "running"
    /\ Top.next \in 1..Len(CallsFrom(Top))
    /\ RecursionLimitReached(Len(stack))
    /\ stdout' = stdout \o MarkerBefore(Top)
    /\ stack' = <<>>
    /\ outcome' = "RecursionError"
    /\ UNCHANGED <<heap, visited, beside_heap>>

\* The body on top has made all its calls and returns.
Return ==
    /\ outcome = "running"
    /\ Top.next > Len(CallsFrom(Top))
    /\ stack' = Popped
    /\ outcome' = IF Popped = <<>> THEN "returned" ELSE "running"
    /\ UNCHANGED <<heap, visited, stdout, beside_heap>>

NextHeap == StoreValue \/ StoreNew \/ CallDisplay \/ EnterBody \/ CallNext
                \/ RaiseRecursionError \/ Return

SpecHeap == InitHeap /\ [][NextHeap]_vars

(***************************************************************************)
(* What the calls on a heap are checked against.                           *)
(***************************************************************************)
\* The values a container holds.
ValuesIn(container) ==
    IF container.kind = "list"
    THEN { container.items[i] : i \in 1..Len(container.items) }
    ELSE { container.items[i][2] : i \in 1..Len(container.items) }

\* The containers that those of a set hold references to.
Successors(addrs) ==
    UNION { { v.addr : v \in { w \in ValuesIn(heap[a]) : w.kind = "ref" } } : a \in addrs }

\* The containers reached from those of a set through 1 to n references.
RECURSIVE ReachedIn(_, _)
ReachedIn(addrs, n) ==
    IF n = 0 THEN {} ELSE Successors(addrs) \cup ReachedIn(Successors(addrs), n - 1)

\* Some container holds itself, directly or through other containers.
\* (Every container of the heap is reached from the root.)
Cyclic == \E a \in 1..Len(heap) : a \in ReachedIn({a}, Len(heap))

MaxOf(numbers) ==
    IF numbers = {} THEN 0 ELSE CHOOSE n \in numbers : \A m \in numbers : m <= n

\* The calls under way at once that the rendering of a value needs, the
\* call on the value included; the value is reached with a label or not.
RECURSIVE FramesOf(_, _)
FramesOf(value, labelled) ==
    IF value.kind # "ref"
    THEN 1
    ELSE LET container == heap[value.addr]
             held      == ValuesIn(container)
         IN  IF container.kind = "list"
             THEN 1 + MaxOf({ FramesOf(v, FALSE) : v \in held })
             ELSE IF container.kind = "dict"
             THEN IF labelled /\ \A v \in held : v.kind # "ref"
                  THEN 1
                  ELSE 1 + MaxOf({ FramesOf(v, TRUE) : v \in held })
             ELSE 2 + MaxOf({ FramesOf(v, TRUE) : v \in held })

\* The same for the message at address 1, passed to display_message_tree.
FramesNeeded ==
    IF heap[1].kind = "object" THEN 1
    ELSE IF heap[1].kind = "BaseMessage"
    THEN 1 + MaxOf({ FramesOf(v, TRUE) : v \in ValuesIn(heap[1]) })
    ELSE FramesOf(Ref(1), FALSE)

\* The nested value that a reference of a heap without cycles stands for.
RECURSIVE Unfold(_)
Unfold(value) ==
    IF value.kind # "ref"
    THEN value
    ELSE LET container == heap[value.addr]
             pairs == [i \in 1..Len(container.items) |->
                          <<container.items[i][1], Unfold(container.items[i][2])>>]
         IN  CASE container.kind = "list" ->
                      ListValue([i \in 1..Len(container.items) |-> Unfold(container.items[i])])
               [] container.kind = "dict" -> DictValue(pairs)
               [] container.kind = "object" -> ObjectValue(pairs)
               [] container.kind = "BaseMessage" -> MessageValue(pairs)

\* C16 as claimed: on data without cycles the call never ends with an
\* exception.
C16_NeverRaisesOnAcyclic ==
    outcome = "RecursionError" => Cyclic

\* C16, amended: on data without cycles the call raises nothing as long as
\* the nesting needs no more calls under way at once than the interpreter
\* allows, and then it returns having printed what the renderer prints for
\* the nested value, a value without __dict__ being printed by the
\* primitive branch; on deeper data it ends with RecursionError.
C16_NoErrorWithinRecursionLimit ==
    /\ (outcome = "RecursionError" /\ ~Cyclic) => FramesNeeded > RecursionLimit
    /\ (outcome = "returned" /\ ~Cyclic) =>
          /\ FramesNeeded <= RecursionLimit
          /\ stdout = messages_display_message_tree(Unfold(Ref(1)))

\* C16 witness: the call on a dict that holds a value without __dict__ and
\* a list of one str has returned: the value's line, the header of the
\* list and one marker.
C16_Witness ==
    /\ outcome = "returned"
    /\ heap = << [kind |-> "dict", items |-> << <<"a", OpaqueValue>>, <<"b", Ref(2)>> >>],
                 [kind |-> "list", items |-> << StrValue("x") >>] >>
    /\ stdout = << Line(4, DepthColor(1), "a", ": <slots>"),
                   Line(4, DepthColor(1), "b", ":"),
                   Line(8, DepthColor(1), "index [0]", "") >>

RECURSIVE PreOrderFrom(_, _)
PreOrderFrom(addr, i) ==
    IF i > Len(heap[addr].items)
    THEN <<>>
    ELSE LET item  == heap[addr].items[i]
             value == IF heap[addr].kind = "list" THEN item ELSE item[2]
         IN  << <<addr, i>> >>
                 \o (IF value.kind = "ref" THEN PreOrderFrom(value.addr, 1) ELSE <<>>)
                 \o PreOrderFrom(addr, i + 1)

\* The call has ended, by returning or by an exception.
Ended == outcome \in {"returned", "RecursionError"}

IsPrefix(left, right) ==
    Len(left) <= Len(right) /\ left = SubSeq(right, 1, Len(left))

\* C29 as claimed: on a value without cycles the call returns, and the
\* entries, elements and attributes it has rendered are those of the value
\* depth first in pre-order: each after its container's header and before
\* the next item of that container, each once for each place it has in the
\* value.
C29_EveryItemInPreOrder ==
    (Ended /\ ~Cyclic) => (outcome = "returned" /\ visited = PreOrderFrom(1, 1))

\* C29, what the code does: when the call returns, the items rendered are
\* those of the value in pre-order, unless the value passed is an object
\* with a __dict__ that is no BaseMessage, of which none is rendered; when
\* the call on a value without cycles ends with RecursionError, the items
\* rendered are the first ones of the pre-order, up to where it ended.
C29_PreOrderBelowRootObject ==
    /\ outcome = "returned" =>
          visited = IF heap[1].kind = "object" THEN <<>> ELSE PreOrderFrom(1, 1)
    /\ (outcome = "RecursionError" /\ ~Cyclic) => IsPrefix(visited, PreOrderFrom(1, 1))

\* C29 witness: the call on a list that holds a list of one str and then a
\* str has returned: the first element, the element of the inner list, the
\* second element.
C29_Witness ==
    /\ outcome = "returned"
    /\ heap = << [kind |-> "list", items |-> << Ref(2), StrValue("x") >>],
                 [kind |-> "list", items |-> << StrValue("x") >>] >>
    /\ visited = << <<1, 1>>, <<2, 1>>, <<1, 2>> >>

(***************************************************************************)
(* MessageChunkAccumulator of utils/messages.py.  An AIMessageChunk is its *)
(* content, a text, and its tool calls; chunk + chunk, which is langchain's,*)
(* joins the contents and the tool calls, left before right.  A node or a  *)
(* namespace is a text, or None.                                           *)
(***************************************************************************)
\* Calls made on one accumulator.
MaxOps == 3

AIMessageChunk(text, calls) ==
    [kind |-> "AIMessageChunk", content |-> text, tool_calls |-> calls]

Chunks ==
    { AIMessageChunk("a", <<>>),
      AIMessageChunk("b", << [name |-> "get_current_time", id |-> "call_a"] >>) }

\* The node and namespace arguments of an add call.
NodeAndNamespace ==
    { <<None, None>>, <<"n1", None>>, <<"n2", None>>, <<None, "s1">>, <<None, "s2">>,
      <<"n1", "s1">> }

\* self.gathered + chunk.
ChunkAdd(left, right) ==
    AIMessageChunk(left.content \o right.content, left.tool_calls \o right.tool_calls)

\* extract_message_text, of a chunk whose content is a str.
extract_message_text(msg) == msg.content

\* extract_tool_calls, of a chunk.
extract_tool_calls(msg) == msg.tool_calls

\* MessageChunkAccumulator._should_reset.
\* (always_reset: every add call resets.)
always_reset(node, namespace) == TRUE
\* (never_reset: no add call resets.)
never_reset(node, namespace) == FALSE
should_reset(node, namespace) ==
    IF node = None /\ namespace = None
    THEN FALSE
    ELSE IF node # None /\ current_node # None /\ node # current_node
    THEN TRUE
    ELSE IF namespace # None /\ current_namespace # None /\ namespace # current_namespace
    THEN TRUE
    ELSE FALSE

\* MessageChunkAccumulator.text.
accumulator_text ==
    IF gathered = NoneValue THEN "" ELSE extract_message_text(gathered)

\* MessageChunkAccumulator.tool_calls.
accumulator_tool_calls ==
    IF gathered = NoneValue THEN <<>> ELSE extract_tool_calls(gathered)

\* MessageChunkAccumulator.get_full_message().
get_full_message == gathered

beside_accumulator == <<turn_vars, tree_vars, calls_vars, heap_vars, environ_vars, further_vars>>

InitAccumulator ==
    /\ TurnIdle
    /\ TreeIdle
    /\ CallsIdle /\ HeapIdle /\ EnvironIdle /\ FurtherIdle
    /\ AccumulatorIdle

\* MessageChunkAccumulator.add(chunk, node, namespace).
add ==
    /\ Len(log) < MaxOps
    /\ \E chunk \in Chunks, given \in NodeAndNamespace :
          LET node      == given[1]
              namespace == given[2]
              reset     == should_reset(node, namespace)
              was       == IF reset THEN NoneValue ELSE gathered
              was_node  == IF reset THEN None ELSE current_node
              was_namespace == IF reset THEN None ELSE current_namespace
          IN  /\ current_node' = IF node # None THEN node ELSE was_node
              /\ current_namespace' = IF namespace # None THEN namespace ELSE was_namespace
              /\ gathered' = IF was = NoneValue THEN chunk ELSE ChunkAdd(was, chunk)
              /\ log' = Append(log, [op |-> "add", chunk |-> chunk, node |-> node,
                                     namespace |-> namespace, reset |-> reset])
    /\ UNCHANGED beside_accumulator

\* MessageChunkAccumulator.reset().
reset ==
    /\ Len(log) < MaxOps
    /\ gathered' = NoneValue
    /\ current_node' = None
    /\ current_namespace' = None
    /\ log' = Append(log, [op |-> "reset"])
    /\ UNCHANGED beside_accumulator

NextAccumulator == add \/ reset

SpecAccumulator == InitAccumulator /\ [][NextAccumulator]_vars

\* The calls made since the last reset() call, or since construction.
RECURSIVE SinceReset(_)
SinceReset(calls) ==
    IF calls = <<>> \/ calls[Len(calls)].op = "reset"
    THEN <<>>
    ELSE Append(SinceReset(SubSeq(calls, 1, Len(calls) - 1)), calls[Len(calls)])

\* c1 + ... + cn of the chunks of add calls, from the left.
RECURSIVE SumOf(_)
SumOf(adds) ==
    IF Len(adds) = 1
    THEN adds[1].chunk
    ELSE LET before == SumOf(SubSeq(adds, 1, Len(adds) - 1))
             last   == adds[Len(adds)].chunk
         IN  AIMessageChunk(before.content \o last.content,
                            before.tool_calls \o last.tool_calls)

\* C17: an accumulator that is new or has just been reset has the text "",
\* no tool calls and no message; after add calls that gave no node and no
\* namespace, made on such an accumulator, none of them has reset and the
\* message is the sum of their chunks in the order added.
C17_SumOfChunksAdded ==
    LET adds == SinceReset(log)
    IN  /\ adds = <<>> =>
              /\ accumulator_text = ""
              /\ accumulator_tool_calls = <<>>
              /\ get_full_message = NoneValue
        /\ (adds # <<>> /\ \A i \in 1..Len(adds) :
                               adds[i].node = None /\ adds[i].namespace = None) =>
              /\ \A i \in 1..Len(adds) : ~adds[i].reset
              /\ get_full_message = SumOf(adds)

\* C17 witness: three chunks added with no node and no namespace: the
\* message has the three contents in the order added.
C17_Witness ==
    /\ Len(log) = 3
    /\ \A i \in 1..3 : log[i].op = "add" /\ log[i].node = None /\ log[i].namespace = None
    /\ log[1].chunk.content = "a" /\ log[2].chunk.content = "b" /\ log[3].chunk.content = "b"
    /\ gathered.content = "abb"
    /\ Len(gathered.tool_calls) = 2

\* The node, or the namespace, given by the most recent of some add calls
\* that gave one; None if none did.
RECURSIVE LastGiven(_, _)
LastGiven(adds, field) ==
    IF adds = <<>>
    THEN None
    ELSE IF adds[Len(adds)][field] # None
    THEN adds[Len(adds)][field]
    ELSE LastGiven(SubSeq(adds, 1, Len(adds) - 1), field)

\* An add call gives a node that differs from the last one given by some
\* earlier add calls, or a namespace that does.
Differs(adds, call) ==
    \E field \in {"node", "namespace"} :
        /\ call[field] # None
        /\ LastGiven(adds, field) # None
        /\ call[field] # LastGiven(adds, field)

\* The add calls whose chunks make up the accumulated message after some
\* calls, when an add call that changes the node or the namespace discards
\* what was gathered.  The earlier calls it is compared with are those
\* since the last reset() call, or those since the last discarding, the
\* call that discarded included.
RECURSIVE Kept(_, _)
Kept(calls, since_discarding) ==
    IF calls = <<>>
    THEN <<>>
    ELSE LET call   == calls[Len(calls)]
             before == SubSeq(calls, 1, Len(calls) - 1)
             seen   == IF since_discarding THEN Kept(before, TRUE) ELSE SinceReset(before)
         IN  IF call.op = "reset"
             THEN <<>>
             ELSE IF Differs(seen, call)
             THEN << call >>
             ELSE Append(Kept(before, since_discarding), call)

\* The accumulated message, were it made of the chunks of some add calls.
MessageOf(adds) == IF adds = <<>> THEN NoneValue ELSE SumOf(adds)

\* C22 as claimed: an add call whose node differs from the node given by
\* the most recent earlier add call that gave one, with no reset() call in
\* between, or whose namespace differs in the same sense, discards what was
\* gathered, so that the message is its chunk alone; any other add call
\* appends its chunk.
C22_ResetsOnAnyEarlierGiven ==
    get_full_message = MessageOf(Kept(log, FALSE))

\* C22, amended: the earlier add calls the node and the namespace are
\* compared with are those since the last discarding, whether by reset() or
\* by an add call that changed the node or the namespace, that add call
\* included: a discarding forgets the node and the namespace alike.
C22_ResetsOnChangeSinceDiscarding ==
    /\ get_full_message = MessageOf(Kept(log, TRUE))
    /\ current_node = LastGiven(Kept(log, TRUE), "node")
    /\ current_namespace = LastGiven(Kept(log, TRUE), "namespace")

\* C22 witness: add with node n1 and namespace s1, add with node n2, which
\* discards, add with namespace s2, which does not: the message is the sum
\* of the last two chunks.
C22_Witness ==
    /\ Len(log) = 3
    /\ log[1].op = "add" /\ log[1].node = "n1" /\ log[1].namespace = "s1"
    /\ log[2].op = "add" /\ log[2].node = "n2" /\ log[2].namespace = None
    /\ log[3].op = "add" /\ log[3].node = None /\ log[3].namespace = "s2"
    /\ log[1].chunk.content = "b" /\ log[2].chunk.content = "a" /\ log[3].chunk.content = "b"
    /\ gathered = AIMessageChunk("ab", log[3].chunk.tool_calls)
    /\ current_node = "n2" /\ current_namespace = "s2"

\* The add calls whose chunks make up the accumulated message: those since
\* the last call that set gathered anew, a reset() call or an add call
\* that reset, that add call included.
RECURSIVE MadeOf(_)
MadeOf(calls) ==
    IF calls = <<>>
    THEN <<>>
    ELSE LET call   == calls[Len(calls)]
             before == SubSeq(calls, 1, Len(calls) - 1)
         IN  IF call.op = "reset"
             THEN <<>>
             ELSE IF call.reset
             THEN << call >>
             ELSE Append(MadeOf(before), call)

\* C27: after any add and reset calls, the accumulated message is the sum
\* of the chunks added since gathered was last set anew; those of them
\* added with a node all have the same node, which is current_node when
\* current_node is not None, and those added with a namespace all have the
\* same namespace, which is current_namespace when that is not None.
C27_OneNodeAndNamespacePerMessage ==
    LET made == MadeOf(log)
    IN  /\ get_full_message = MessageOf(made)
        /\ \A i, j \in 1..Len(made) :
              /\ (made[i].node # None /\ made[j].node # None) =>
                    made[i].node = made[j].node
              /\ (made[i].namespace # None /\ made[j].namespace # None) =>
                    made[i].namespace = made[j].namespace
        /\ \A i \in 1..Len(made) :
              /\ (made[i].node # None /\ current_node # None) =>
                    made[i].node = current_node
              /\ (made[i].namespace # None /\ current_namespace # None) =>
                    made[i].namespace = current_namespace

\* C27 witness: three chunks added, the first with node n1, the second
\* with namespace s1, the third with both: none resets, and the message is
\* made of the three.
C27_Witness ==
    /\ Len(log) = 3
    /\ \A i \in 1..3 : log[i].op = "add"
    /\ log[1].node = "n1" /\ log[1].namespace = None
    /\ log[2].node = None /\ log[2].namespace = "s1"
    /\ log[3].node = "n1" /\ log[3].namespace = "s1"
    /\ Len(MadeOf(log)) = 3
    /\ gathered.content = "aba"
    /\ current_node = "n1" /\ current_namespace = "s1"

(***************************************************************************)
(* langsmith of utils/langsmith.py.  os.environ is a function from the     *)
(* names that are set to their values.  A str is the sequence of its       *)
(* pieces, each a whitespace character or a run of other characters, so    *)
(* that strip() has something to strip.                                    *)
(***************************************************************************)
Text(chars) == [kind |-> "str", chars |-> chars]

Whitespace == {" ", "\t"}

\* str.strip(): without the whitespace at either end.
RECURSIVE lstrip(_)
lstrip(chars) ==
    IF chars # <<>> /\ Head(chars) \in Whitespace THEN lstrip(Tail(chars)) ELSE chars

RECURSIVE rstrip(_)
rstrip(chars) ==
    IF chars # <<>> /\ chars[Len(chars)] \in Whitespace
    THEN rstrip(SubSeq(chars, 1, Len(chars) - 1))
    ELSE chars

\* (not_stripped: the text as it is.)
not_stripped(text) == text
strip(text) == Text(rstrip(lstrip(text.chars)))

\* os.getenv(name, default).
getenv(name, default) ==
    IF name \in DOMAIN environ THEN environ[name] ELSE default

\* os.environ[name] = value.
SetItem(env, name, value) ==
    [n \in DOMAIN env \cup {name} |-> IF n = name THEN value ELSE env[n]]

\* project_name or "default".
OrDefault(project_name) ==
    IF project_name = NoneValue \/ project_name = Text(<<>>)
    THEN Text(<<"default">>)
    ELSE project_name

\* The values LANGSMITH_API_KEY is found with, when it is set.
ApiKeys ==
    { Text(<<>>), Text(<<" ">>), Text(<<"\t", " ">>), Text(<<"key">>),
      Text(<<" ", "key", " ">>) }

ProjectNames == { NoneValue, Text(<<>>), Text(<<"proj">>) }

\* The environments a process starts with: HOME is set, each variable that
\* langsmith reads or writes is set or not.
Environments ==
    { [n \in {"HOME"} \cup set |->
          CASE n = "HOME" -> Text(<<"/root">>)
            [] n = "LANGSMITH_API_KEY" -> key
            [] n = "LANGSMITH_ENDPOINT" -> Text(<<"http://localhost">>)
            [] n = "LANGSMITH_TRACING" -> Text(<<"true">>)
            [] n = "LANGSMITH_PROJECT" -> Text(<<"old">>)] :
      key \in ApiKeys,
      set \in SUBSET {"LANGSMITH_API_KEY", "LANGSMITH_ENDPOINT", "LANGSMITH_TRACING",
                      "LANGSMITH_PROJECT"} }

beside_environ == <<turn_vars, tree_vars, calls_vars, heap_vars, accumulator_vars, further_vars>>

InitLangsmith ==
    /\ TurnIdle
    /\ TreeIdle
    /\ CallsIdle /\ HeapIdle /\ AccumulatorIdle /\ FurtherIdle
    /\ environ \in Environments
    /\ environ_before = environ
    /\ langsmith_args = NoneValue
    /\ langsmith_raised = "none"

\* langsmith(project_name, set_enable).
langsmith ==
    /\ \E project_name \in ProjectNames, set_enable \in BOOLEAN :
          /\ langsmith_args' = [project_name |-> project_name, set_enable |-> set_enable]
          /\ IF set_enable
             THEN LET langsmith_key == getenv("LANGSMITH_API_KEY", Text(<<>>))
                  IN  IF strip(langsmith_key) = Text(<<>>)
                      THEN /\ langsmith_raised' = "ValueError"
                           /\ environ' = environ
                      ELSE /\ langsmith_raised' = "none"
                           /\ environ' =
                                 SetItem(SetItem(SetItem(environ,
                                     "LANGSMITH_ENDPOINT", Text(<<"https://api.smith.langchain.com">>)),
                                     "LANGSMITH_TRACING", Text(<<"true">>)),
                                     "LANGSMITH_PROJECT", OrDefault(project_name))
             ELSE /\ langsmith_raised' = "none"
                  /\ environ' = SetItem(environ, "LANGSMITH_TRACING", Text(<<"false">>))
    /\ environ_before' = environ
    /\ UNCHANGED beside_environ

\* The caller sets the key, as load_dotenv or an export would.
SetApiKey ==
    /\ \E key \in ApiKeys : environ' = SetItem(environ, "LANGSMITH_API_KEY", key)
    /\ environ_before' = environ
    /\ langsmith_args' = NoneValue
    /\ langsmith_raised' = "none"
    /\ UNCHANGED beside_environ

NextLangsmith == langsmith \/ SetApiKey

SpecLangsmith == InitLangsmith /\ [][NextLangsmith]_vars

\* A variable has the same value, or is unset, in two environments.
SameIn(env, other, name) ==
    /\ name \in DOMAIN env <=> name \in DOMAIN other
    /\ name \in DOMAIN env => env[name] = other[name]

\* LANGSMITH_API_KEY is unset, empty or made of whitespace only.
KeyIsBlank(env) ==
    \/ "LANGSMITH_API_KEY" \notin DOMAIN env
    \/ \A i \in 1..Len(env["LANGSMITH_API_KEY"].chars) :
          env["LANGSMITH_API_KEY"].chars[i] \in {" ", "\t"}

\* The last step was a call of langsmith.
LangsmithCalled == langsmith_args # NoneValue

AllNames == DOMAIN environ \cup DOMAIN environ_before

\* C18: a call with set_enable true that finds the key unset, empty or of
\* whitespace only raises ValueError and leaves LANGSMITH_ENDPOINT,
\* LANGSMITH_TRACING and LANGSMITH_PROJECT as they were; a call with
\* set_enable false raises nothing, leaves LANGSMITH_TRACING at "false" and
\* every other variable as it was.
C18_RaisesOnBlankKey ==
    LangsmithCalled =>
        /\ (langsmith_args.set_enable /\ KeyIsBlank(environ_before)) =>
              /\ langsmith_raised = "ValueError"
              /\ \A name \in {"LANGSMITH_ENDPOINT", "LANGSMITH_TRACING", "LANGSMITH_PROJECT"} :
                    SameIn(environ, environ_before, name)
        /\ ~langsmith_args.set_enable =>
              /\ langsmith_raised = "none"
              /\ "LANGSMITH_TRACING" \in DOMAIN environ
              /\ environ["LANGSMITH_TRACING"] = Text(<<"false">>)
              /\ \A name \in AllNames \ {"LANGSMITH_TRACING"} :
                    SameIn(environ, environ_before, name)

\* C18 witness: a call with set_enable true found a key of whitespace
\* only, with tracing on and no project: it raised, and both are as before.
C18_Witness ==
    /\ LangsmithCalled
    /\ langsmith_args.set_enable
    /\ langsmith_raised = "ValueError"
    /\ DOMAIN environ_before = {"HOME", "LANGSMITH_API_KEY", "LANGSMITH_TRACING"}
    /\ environ_before["LANGSMITH_API_KEY"] = Text(<<"\t", " ">>)
    /\ DOMAIN environ = DOMAIN environ_before
    /\ environ["LANGSMITH_TRACING"] = Text(<<"true">>)
    /\ "LANGSMITH_PROJECT" \notin DOMAIN environ
    /\ "LANGSMITH_ENDPOINT" \notin DOMAIN environ

(***************************************************************************)
(* stream_graph of utils/messages.py.  graph.stream is LangGraph's: what   *)
(* it yields is drawn from small sets, a (message chunk, metadata) pair in *)
(* mode "messages", a (namespace, {node: node chunk}) pair in mode         *)
(* "updates", a state in mode "values".  A print call is the record of the *)
(* function that made it, its text and its end.  A namespace element is    *)
(* the sequence of its pieces between colons.                              *)
(***************************************************************************)
\* Items graph.stream yields in one call.
MaxStream == 3

StreamNodes == {"agent", "tools"}

StreamModes == {"messages", "updates", "values"}

TupleValue(elements) == [kind |-> "tuple", items |-> elements]

\* The node_names arguments: None, [], and lists of one and of two names.
NodeNamesGiven ==
    { NoneValue, ListValue(<<>>), ListValue(<<"agent">>), ListValue(<<"tools", "agent">>) }

TextChunk == AIMessageChunk("a", <<>>)

ToolCallChunk == AIMessageChunk("", << [name |-> "get_current_time", id |-> "call_a"] >>)

\* What graph.stream yields, by mode.
Yielded(stream_mode) ==
    IF stream_mode = "messages"
    THEN { [chunk_msg |-> msg, metadata |-> [langgraph_node |-> node]] :
             msg \in {TextChunk, ToolCallChunk, AIMessageChunk("b", <<>>)},
             node \in StreamNodes }
    ELSE IF stream_mode = "values"
    THEN { [chunk |-> DictValue(<<>>)],
           [chunk |-> DictValue(<< <<"messages", ListValue(<<>>)>> >>)],
           [chunk |-> DictValue(<< <<"messages", ListValue(<< TextChunk >>)>> >>)],
           [chunk |-> DictValue(<< <<"messages", ListValue(<< TextChunk, ToolCallChunk >>)>> >>)] }
    ELSE { [namespace |-> TupleValue(ns), chunk |-> DictValue(pairs)] :
             ns \in { <<>>, << <<"sub", "1">> >> },
             pairs \in { << <<"agent", DictValue(<< <<"messages", ListValue(<< TextChunk >>)>> >>)>> >>,
                         << <<"tools", NoneValue>> >>,
                         << <<"tools", DictValue(<< <<"output", StrValue("x")>> >>)>>,
                            <<"agent", DictValue(<< <<"messages", ListValue(<< ToolCallChunk >>)>> >>)>> >> } }

SEPARATOR_LINE == "=================================================="

SEPARATOR_DASH == "- - - - - - - - - - - - - - - - - - - - - - - - - "

Output(by, text, end) == [by |-> by, text |-> text, end |-> end]

\* format_namespace.
format_namespace(namespace) ==
    IF Len(namespace.items) > 0
    THEN namespace.items[Len(namespace.items)][1]
    ELSE "root graph"

\* _print_node_header(node_name, namespace, prev_node).
print_node_header(node_name, namespace, prev) ==
    IF node_name = prev
    THEN <<>>
    ELSE << Output("_print_node_header", "\n" \o SEPARATOR_LINE, "\n"),
            Output("_print_node_header",
                  IF namespace = NoneValue \/ format_namespace(namespace) = "root graph"
                  THEN "Node: " \o node_name
                  ELSE "Node: " \o node_name \o " in [" \o format_namespace(namespace) \o "]",
                  "\n"),
            Output("_print_node_header", SEPARATOR_DASH, "\n") >>

IsBaseMessage(value) == value.kind = "AIMessageChunk"

\* msg.pretty_print(), which is langchain's.
pretty_print(by, msg) == [by |-> by, pretty_print |-> msg]

\* _print_base_message(msg, streaming=False).
print_base_message(msg) ==
    IF extract_message_text(msg) # ""
    THEN << Output("_print_base_message", extract_message_text(msg), "\n") >>
    ELSE << pretty_print("_print_base_message", msg) >>

\* The list branch of _print_node_chunk, streaming=False, on the elements
\* from the n-th on: messages.
RECURSIVE print_list_items(_, _)
print_list_items(items, n) ==
    IF n > Len(items)
    THEN <<>>
    ELSE print_base_message(items[n]) \o print_list_items(items, n + 1)

\* _print_node_chunk(node_chunk, streaming=False), on None and on a dict,
\* from its n-th entry on; the values of the dict are messages, lists of
\* messages, dicts of str values and str values.
RECURSIVE print_dict_entries(_, _)
print_dict_entries(pairs, n) ==
    IF n > Len(pairs)
    THEN <<>>
    ELSE LET k == pairs[n][1]
             v == pairs[n][2]
             printed ==
                 IF IsBaseMessage(v)
                 THEN print_base_message(v)
                 ELSE IF v.kind = "list"
                 THEN print_list_items(v.items, 1)
                 ELSE IF v.kind = "dict"
                 THEN [i \in 1..Len(v.items) |->
                          Output("_print_node_chunk",
                                v.items[i][1] \o ":\n" \o PyStr(v.items[i][2]), "\n")]
                 ELSE << Output("_print_node_chunk", k \o ":\n" \o PyStr(v), "\n") >>
         IN  printed \o print_dict_entries(pairs, n + 1)

print_node_chunk(node_chunk) ==
    IF node_chunk = NoneValue
    THEN <<>>
    ELSE print_dict_entries(node_chunk.items, 1)

\* node_names or [].
OrEmptyList(node_names) == IF node_names = NoneValue THEN <<>> ELSE node_names.items

\* not node_names or curr_node in node_names.
\* (every_node: the names are not looked at.)
every_node(node, names) == TRUE
in_node_names(node, names) ==
    names = <<>> \/ \E i \in 1..Len(names) : names[i] = node

\* The body of the loop of mode "messages", on one item.
MessagesBody(item, names, callback, state) ==
    LET curr_node == item.metadata.langgraph_node
        chunk_msg == item.chunk_msg
        text      == extract_message_text(chunk_msg)
        result    == [node |-> curr_node, content |-> chunk_msg, metadata |-> item.metadata]
    IN  IF in_node_names(curr_node, names)
        THEN IF callback
             THEN [state EXCEPT !.calls = Append(@, [node |-> curr_node, content |-> chunk_msg]),
                                !.prev = curr_node,
                                !.final = result]
             ELSE [state EXCEPT !.out = @ \o print_node_header(curr_node, NoneValue, state.prev)
                                          \o (IF text # ""
                                              THEN << Output("stream_graph", text, "") >>
                                              ELSE <<>>),
                                !.prev = curr_node,
                                !.final = result]
        ELSE [state EXCEPT !.final = result]

\* The names of tool calls, as str() of the list of them.
RECURSIVE NamesRepr(_, _)
NamesRepr(calls, n) ==
    IF n > Len(calls)
    THEN ""
    ELSE (IF n > 1 THEN ", " ELSE "") \o "'" \o calls[n].name \o "'" \o NamesRepr(calls, n + 1)

\* chunk["messages"], or None when the state has no such key.
MessagesOf(chunk) ==
    IF \E i \in 1..Len(chunk.items) : chunk.items[i][1] = "messages"
    THEN (CHOOSE pair \in { chunk.items[i] : i \in 1..Len(chunk.items) } :
              pair[1] = "messages")[2]
    ELSE NoneValue

\* The body of the loop of mode "values", on one item.
ValuesBody(item, callback, state) ==
    LET chunk    == item.chunk
        messages == MessagesOf(chunk)
    IN  IF callback
        THEN [state EXCEPT !.calls = Append(@, [content |-> chunk]), !.final = chunk]
        ELSE IF messages # NoneValue /\ messages.items # <<>>
        THEN LET latest_msg == messages.items[Len(messages.items)]
                 text       == extract_message_text(latest_msg)
                 calls      == extract_tool_calls(latest_msg)
             IN  [state EXCEPT
                    !.out = @ \o (IF text # "" THEN << Output("stream_graph", text, "\n") >> ELSE <<>>)
                              \o (IF calls # <<>>
                                  THEN << Output("stream_graph",
                                                "Calling tools: [" \o NamesRepr(calls, 1) \o "]",
                                                "\n") >>
                                  ELSE <<>>),
                    !.final = chunk]
        ELSE [state EXCEPT !.final = chunk]

\* The body of the loop of mode "updates", on one item: the loop over the
\* nodes of the chunk, from the n-th on.
RECURSIVE UpdatesBody(_, _, _, _, _)
UpdatesBody(item, n, names, callback, state) ==
    IF n > Len(item.chunk.items)
    THEN state
    ELSE LET node_name  == item.chunk.items[n][1]
             node_chunk == item.chunk.items[n][2]
             result     == [node |-> node_name, content |-> node_chunk,
                            namespace |-> item.namespace]
             after ==
                 IF ~in_node_names(node_name, names)
                 THEN [state EXCEPT !.final = result]
                 ELSE IF callback
                 THEN [state EXCEPT !.calls = Append(@, [node |-> node_name, content |-> node_chunk]),
                                    !.final = result]
                 ELSE [state EXCEPT !.out = @ \o print_node_header(node_name, item.namespace, "")
                                              \o print_node_chunk(node_chunk)
                                              \o << Output("stream_graph", SEPARATOR_LINE, "\n") >>,
                                    !.final = result]
         IN  UpdatesBody(item, n + 1, names, callback, after)

beside_stream == <<turn_vars, message, rendered_by, calls_vars, heap_vars, accumulator_vars,
                   environ_vars, chat_vars, terminal_vars, parser_vars>>

\* stream_graph(graph, inputs, config, node_names, callback, stream_mode)
\* has been called; graph, inputs and config go to graph.stream as they are.
InitStream ==
    /\ TurnIdle
    /\ CallsIdle /\ HeapIdle /\ AccumulatorIdle /\ EnvironIdle /\ ChatIdle /\ TerminalIdle
    /\ ParserIdle
    /\ message = NoneValue
    /\ rendered_by = "none"
    /\ stdout = <<>>
    /\ stream_args \in [stream_mode : StreamModes, node_names : NodeNamesGiven,
                        callback : BOOLEAN]
    /\ streamed = <<>>
    /\ callback_calls = <<>>
    /\ prev_node = ""
    /\ final_result = NoneValue
    /\ stream_pc = "running"

\* graph.stream yields an item and the body of the loop runs on it.
StreamItem ==
    /\ stream_pc = "running"
    /\ Len(streamed) < MaxStream
    /\ \E item \in Yielded(stream_args.stream_mode) :
          LET names  == OrEmptyList(stream_args.node_names)
              state  == [calls |-> callback_calls, out |-> stdout, prev |-> prev_node,
                         final |-> final_result]
              after  == IF stream_args.stream_mode = "messages"
                        THEN MessagesBody(item, names, stream_args.callback, state)
                        ELSE IF stream_args.stream_mode = "values"
                        THEN ValuesBody(item, stream_args.callback, state)
                        ELSE UpdatesBody(item, 1, names, stream_args.callback, state)
          IN  /\ streamed' = Append(streamed, item)
              /\ callback_calls' = after.calls
              /\ stdout' = after.out
              /\ prev_node' = after.prev
              /\ final_result' = after.final
    /\ UNCHANGED <<stream_args, stream_pc, beside_stream>>

\* graph.stream is exhausted: stream_graph returns final_result.
StreamReturn ==
    /\ stream_pc = "running"
    /\ stream_pc' = "returned"
    /\ UNCHANGED <<stream_args, streamed, callback_calls, prev_node, final_result, stdout,
                   beside_stream>>

NextStream == StreamItem \/ StreamReturn

SpecStream == InitStream /\ [][NextStream]_vars

\* The chunks of an item graph.stream yielded, each with its node: the one
\* of a (message chunk, metadata) pair, those of a {node: node chunk} dict.
ChunksOf(item) ==
    IF "metadata" \in DOMAIN item
    THEN << [node |-> item.metadata.langgraph_node, content |-> item.chunk_msg,
             namespace |-> NoneValue] >>
    ELSE [i \in 1..Len(item.chunk.items) |->
             [node |-> item.chunk.items[i][1], content |-> item.chunk.items[i][2],
              namespace |-> item.namespace]]

\* The chunks of the items yielded, in stream order.
RECURSIVE AllChunks(_)
AllChunks(items) ==
    IF items = <<>> THEN <<>> ELSE ChunksOf(Head(items)) \o AllChunks(Tail(items))

\* The chunks to process: all of them when node_names is None or empty,
\* else those of the nodes it names.
ToProcess ==
    LET names == IF stream_args.node_names = NoneValue
                 THEN {}
                 ELSE Range(stream_args.node_names.items)
    IN  SelectSeq(AllChunks(streamed), LAMBDA c : names = {} \/ c.node \in names)

\* What is written to the terminal by some print calls: each text and its end.
RECURSIVE Written(_)
Written(outputs) ==
    IF outputs = <<>>
    THEN ""
    ELSE Head(outputs).text \o Head(outputs).end \o Written(Tail(outputs))

\* What mode "messages" writes for some chunks, from the n-th on: the
\* header of the node where the node is not that of the chunk before, and
\* the text of the chunk.
RECURSIVE MessagesWritten(_, _)
MessagesWritten(chunks, n) ==
    IF n > Len(chunks)
    THEN ""
    ELSE Written(print_node_header(chunks[n].node, NoneValue,
                                   IF n = 1 THEN "" ELSE chunks[n - 1].node))
             \o extract_message_text(chunks[n].content)
             \o MessagesWritten(chunks, n + 1)

\* What mode "updates" prints for some chunks, from the n-th on: the
\* header of the node, the node chunk and a separator.
RECURSIVE UpdatesPrinted(_, _)
UpdatesPrinted(chunks, n) ==
    IF n > Len(chunks)
    THEN <<>>
    ELSE print_node_header(chunks[n].node, chunks[n].namespace, "")
             \o print_node_chunk(chunks[n].content)
             \o << Output("stream_graph", SEPARATOR_LINE, "\n") >>
             \o UpdatesPrinted(chunks, n + 1)

\* C23: in stream_graph with stream_mode "messages" or "updates", the
\* chunks passed to the callback, or printed when there is no callback, are
\* those whose node is in node_names, or all of them when node_names is
\* empty or None, in stream order; nothing of any other chunk is passed or
\* printed.
C23_OnlyNamedNodesInOrder ==
    (stream_pc # "none" /\ stream_args.stream_mode \in {"messages", "updates"}) =>
        IF stream_args.callback
        THEN /\ callback_calls =
                   [k \in 1..Len(ToProcess) |->
                       [node |-> ToProcess[k].node, content |-> ToProcess[k].content]]
             /\ stdout = <<>>
        ELSE /\ callback_calls = <<>>
             /\ IF stream_args.stream_mode = "messages"
                THEN Written(stdout) = MessagesWritten(ToProcess, 1)
                ELSE stdout = UpdatesPrinted(ToProcess, 1)

\* C23 witness: with node_names ["agent"] and a callback, mode "messages"
\* has yielded chunks of agent, of tools and of agent again, and the
\* callback was called with the first and the third.
C23_Witness ==
    /\ stream_pc = "returned"
    /\ stream_args = [stream_mode |-> "messages", node_names |-> ListValue(<<"agent">>),
                      callback |-> TRUE]
    /\ Len(streamed) = 3
    /\ streamed[1].metadata.langgraph_node = "agent" /\ streamed[1].chunk_msg = TextChunk
    /\ streamed[2].metadata.langgraph_node = "tools"
    /\ streamed[3].metadata.langgraph_node = "agent" /\ streamed[3].chunk_msg = ToolCallChunk
    /\ callback_calls = << [node |-> "agent", content |-> TextChunk],
                           [node |-> "agent", content |-> ToolCallChunk] >>
    /\ final_result.node = "agent"

(***************************************************************************)
(* One run of the script of 05_finance_stock/stock_info_streamlit.py on a  *)
(* user input, from the history the session holds.  A model response is a  *)
(* stream of chunks, each with a content delta and tool-call fragments;    *)
(* the tools are yfinance's and the clock: the result of a tool is the     *)
(* record of its name and the arguments it was called with.  Streamlit     *)
(* runs the script in a new namespace every time, so function_result is    *)
(* unbound when a run starts.                                              *)
(***************************************************************************)
\* Chunks of one model response.
MaxChunks == 2

Message(role, text) == [role |-> role, content |-> text]

SystemPrompt == Message("system", "prompt")

ResultsPrompt == Message("system", "answer from the results")

UserInputs == {"hi"}

\* The histories a run starts from: the system message alone, or a first
\* exchange after it.
Histories ==
    { << SystemPrompt >>,
      << SystemPrompt, Message("user", "hi"), Message("assistant", "x") >> }

\* chunk.choices[0].delta.
Delta(text, calls) == [content |-> text, tool_calls |-> calls]

\* The fragments of the first response: a whole call of get_current_time,
\* a call of get_stock_info in two pieces, a whole call of a tool that is
\* none of the four, a name by itself, each at index 0 or 1.
ChatFragments ==
    { ToolCallDelta(i, s[1], s[2]) :
        i \in {0, 1},
        s \in { << <<"call_t", "get_current_time", "function">>, "{\"timezone\": \"UTC\"}" >>,
                << <<"call_s", "get_stock_info", "function">>, "{\"ticker\"" >>,
                << NoMeta, ": \"A\"}" >>,
                << <<"call_w", "get_weather", "function">>, "{}" >>,
                << <<None, "get_stock_info", None>>, "" >> } }

\* The chunks of the first response of a run.
FirstChunks ==
    { Delta("x", <<>>), Delta("y", <<>>), Delta(None, <<>>) }
        \cup { Delta(None, << f >>) : f \in ChatFragments }

\* The chunks of the response to the tool results.
FollowUpChunks ==
    { Delta("z", <<>>), Delta("", <<>>),
      Delta("w", << ToolCallDelta(0, <<"call_t", "get_current_time", "function">>, "{}") >>) }

\* "if content_chunk:".
Truthy(text) == text # None /\ text # ""

\* json.loads of an arguments text, over the texts the fragments make: the
\* object decoded, or a JSONDecodeError.
json_loads(text) ==
    IF text = "{}"
    THEN [ok |-> TRUE, value |-> <<>>]
    ELSE IF text = "{\"timezone\": \"UTC\"}"
    THEN [ok |-> TRUE, value |-> [timezone |-> "UTC"]]
    ELSE IF text = "{\"ticker\": \"A\"}"
    THEN [ok |-> TRUE, value |-> [ticker |-> "A"]]
    ELSE [ok |-> FALSE, value |-> <<>>]

\* The parameters each tool is called with.
ParametersOf(tool_name) ==
    IF tool_name = "get_current_time" THEN {"timezone"}
    ELSE IF tool_name = "get_stock_history" THEN {"ticker", "period"}
    ELSE {"ticker"}

KnownTools ==
    {"get_current_time", "get_stock_info", "get_stock_history", "get_stock_recommendation"}

\* What a tool returns for some arguments.
ToolResult(tool_name, arguments) == [tool |-> tool_name, arguments |-> arguments]

Unbound == [kind |-> "unbound"]

\* The if/elif chain of lines 107-120: the value function_result has after
\* it.
ResultAfterChain(tool_name, arguments, before) ==
    IF tool_name \in KnownTools
    THEN ToolResult(tool_name, [p \in ParametersOf(tool_name) |-> arguments[p]])
    ELSE before

\* st.chat_message(role), and what its container shows.
ChatMessage(role, shown) == [role |-> role, shown |-> shown]

\* st.markdown or st.write inside the .empty() container opened last.
Replace(chat, shown) == [chat EXCEPT ![Len(chat)].shown = shown]

\* Lines 66-68: the history as the page shows it.
RECURSIVE HistoryShown(_)
HistoryShown(history) ==
    IF history = <<>>
    THEN <<>>
    ELSE (IF Head(history).role \in {"assistant", "user"}
          THEN << ChatMessage(Head(history).role, Head(history).content) >>
          ELSE <<>>) \o HistoryShown(Tail(history))

\* get_ai_response(...): a generator, which yields the chunks of a new
\* response until it is exhausted.
Generator(n) == [response |-> n, exhausted |-> FALSE]

Exhausted(generator) == [generator EXCEPT !.exhausted = TRUE]

beside_chat == <<tool_calls_dict, received, prior_calls, tree_vars, calls_vars, heap_vars,
                 accumulator_vars, environ_vars, stream_vars, terminal_vars, parser_vars>>

InitChat ==
    /\ tool_calls_chunk = <<>>
    /\ tool_calls_dict = EmptyDict
    /\ tool_calls = <<>>
    /\ pc = "input"
    /\ raised = "none"
    /\ received = 0
    /\ prior_calls = <<>>
    /\ TreeIdle
    /\ CallsIdle /\ HeapIdle /\ AccumulatorIdle /\ EnvironIdle /\ StreamIdle /\ TerminalIdle
    /\ ParserIdle
    /\ session_messages \in Histories
    /\ ai_response = NoneValue
    /\ content = ""
    /\ function_result = Unbound
    /\ dispatch_at = 0
    /\ responses = <<>>
    /\ st_chat = <<>>

\* Lines 66-83: the script runs on a user input.
UserInput ==
    /\ pc = "input"
    /\ \E user_input \in UserInputs :
          /\ session_messages' = Append(session_messages, Message("user", user_input))
          /\ st_chat' = HistoryShown(session_messages)
                            \o << ChatMessage("user", user_input), ChatMessage("assistant", None) >>
    /\ ai_response' = Generator(1)
    /\ responses' = << <<>> >>
    /\ content' = ""
    /\ tool_calls' = <<>>
    /\ tool_calls_chunk' = <<>>
    /\ pc' = "first_stream"
    /\ UNCHANGED <<raised, function_result, dispatch_at, beside_chat>>

\* Lines 84-91: the first response yields a chunk.
ReceiveFirst ==
    /\ pc = "first_stream"
    /\ Len(responses[1]) < MaxChunks
    /\ \E chunk \in FirstChunks :
          /\ responses' = [responses EXCEPT ![1] = Append(@, chunk)]
          /\ IF Truthy(chunk.content)
             THEN /\ content' = content \o chunk.content
                  /\ st_chat' = Replace(st_chat, content')
             ELSE UNCHANGED <<content, st_chat>>
          /\ tool_calls_chunk' = tool_calls_chunk \o chunk.tool_calls
    /\ UNCHANGED <<session_messages, ai_response, tool_calls, pc, raised, function_result,
                   dispatch_at, beside_chat>>

\* Lines 93-100 and, with no tool call, 135-136: the first response has
\* ended and the fragments are accumulated.
EndFirstStream ==
    /\ pc = "first_stream"
    /\ ai_response' = Exhausted(ai_response)
    /\ tool_calls' = tool_list_to_tool_obj(tool_calls_dict, tool_calls_chunk).tool_calls
    /\ IF Len(tool_calls') > 0
       THEN /\ st_chat' = Replace(st_chat,
                                  [n \in 1..Len(tool_calls') |-> tool_calls'[n].functions])
            /\ dispatch_at' = 1
            /\ pc' = "dispatch"
            /\ UNCHANGED content
       ELSE /\ content' = ""
            /\ st_chat' = Append(st_chat, ChatMessage("assistant", None))
            /\ pc' = "final_stream"
            /\ UNCHANGED dispatch_at
    /\ UNCHANGED <<session_messages, tool_calls_chunk, raised, function_result, responses,
                   beside_chat>>

\* Lines 101-127: the body of the loop, on the tool call it is at.
DispatchToolCall ==
    /\ pc = "dispatch"
    /\ dispatch_at <= Len(tool_calls)
    /\ LET tool_call    == tool_calls[dispatch_at]
           tool_name    == tool_call.functions.name
           tool_call_id == tool_call.id
           decoded      == json_loads(tool_call.functions.arguments)
           arguments    == decoded.value
           result       == ResultAfterChain(tool_name, arguments, function_result)
       IN  IF ~decoded.ok
           THEN /\ raised' = "JSONDecodeError"
                /\ pc' = "failed"
                /\ UNCHANGED <<session_messages, function_result, dispatch_at>>
           ELSE IF tool_name \in KnownTools
                     /\ ~(ParametersOf(tool_name) \subseteq DOMAIN arguments)
           THEN /\ raised' = "KeyError"
                /\ pc' = "failed"
                /\ UNCHANGED <<session_messages, function_result, dispatch_at>>
           ELSE IF result = Unbound
           THEN /\ raised' = "NameError"
                /\ pc' = "failed"
                /\ UNCHANGED <<session_messages, function_result, dispatch_at>>
           ELSE /\ function_result' = result
                /\ session_messages' =
                      Append(session_messages,
                             [role |-> "function", tool_call_id |-> tool_call_id,
                              name |-> tool_name, content |-> result])
                /\ dispatch_at' = dispatch_at + 1
                /\ UNCHANGED <<pc, raised>>
    /\ UNCHANGED <<tool_calls_chunk, tool_calls, ai_response, content, responses, st_chat,
                   beside_chat>>

\* Lines 129-136: the loop is over, the model is asked to answer.
RequestFollowUp ==
    /\ pc = "dispatch"
    /\ dispatch_at > Len(tool_calls)
    /\ session_messages' = Append(session_messages, ResultsPrompt)
    /\ ai_response' = Generator(2)
    /\ responses' = Append(responses, <<>>)
    /\ content' = ""
    /\ st_chat' = Append(st_chat, ChatMessage("assistant", None))
    /\ pc' = "final_stream"
    /\ UNCHANGED <<tool_calls_chunk, tool_calls, raised, function_result, dispatch_at,
                   beside_chat>>

\* Lines 137-141: the generator ai_response names yields a chunk.
ReceiveFinal ==
    /\ pc = "final_stream"
    /\ ~ai_response.exhausted
    /\ Len(responses[ai_response.response]) < MaxChunks
    /\ \E chunk \in FollowUpChunks :
          /\ responses' = [responses EXCEPT ![ai_response.response] = Append(@, chunk)]
          /\ IF Truthy(chunk.content)
             THEN /\ content' = content \o chunk.content
                  /\ st_chat' = Replace(st_chat, content')
             ELSE UNCHANGED <<content, st_chat>>
    /\ UNCHANGED <<session_messages, ai_response, tool_calls_chunk, tool_calls, pc, raised,
                   function_result, dispatch_at, beside_chat>>

\* Lines 137-146: the generator yields nothing more, the assistant message
\* is appended.
EndFinalStream ==
    /\ pc = "final_stream"
    /\ ai_response' = Exhausted(ai_response)
    /\ session_messages' = Append(session_messages, Message("assistant", content))
    /\ pc' = "done"
    /\ UNCHANGED <<tool_calls_chunk, tool_calls, raised, content, function_result, dispatch_at,
                   responses, st_chat, beside_chat>>

NextChat == UserInput \/ ReceiveFirst \/ EndFirstStream \/ DispatchToolCall
                \/ RequestFollowUp \/ ReceiveFinal \/ EndFinalStream

SpecChat == InitChat /\ [][NextChat]_vars

\* The content chunks of a response, joined.
RECURSIVE ContentOf(_)
ContentOf(chunks) ==
    IF chunks = <<>>
    THEN ""
    ELSE (IF Head(chunks).content \in {None, ""} THEN "" ELSE Head(chunks).content)
             \o ContentOf(Tail(chunks))

\* The messages appended to the history after the user input of the run.
RECURSIVE AfterInput(_)
AfterInput(history) ==
    IF history = <<>> \/ history[Len(history)].role = "user"
    THEN <<>>
    ELSE Append(AfterInput(SubSeq(history, 1, Len(history) - 1)), history[Len(history)])

\* The assistant messages among some messages.
AssistantsIn(history) == SelectSeq(history, LAMBDA m : m.role = "assistant")

\* The first response of the run carried a tool-call fragment.
FirstHadToolCalls == \E k \in 1..Len(responses[1]) : responses[1][k].tool_calls # <<>>

\* The run has handled the user input.
InputHandled == pc = "done"

\* C24 as claimed: after a user input has been handled, one assistant
\* message has been appended, whose content is the content chunks, joined,
\* of the response that answered the turn: the first response when it had
\* no tool calls, the follow-up response when it had.
C24_AssistantHoldsTheAnswer ==
    InputHandled =>
        /\ Len(AssistantsIn(AfterInput(session_messages))) = 1
        /\ AssistantsIn(AfterInput(session_messages))[1].content =
              IF FirstHadToolCalls THEN ContentOf(responses[2]) ELSE ContentOf(responses[1])

\* C24, what the code does: one assistant message is appended, the last of
\* the history; after tool calls its content is that of the follow-up
\* response, and without tool calls it is empty, whatever the first
\* response said, since the second loop runs on the generator the first
\* loop exhausted.
C24_AssistantEmptyWithoutToolCalls ==
    InputHandled =>
        /\ Len(AssistantsIn(AfterInput(session_messages))) = 1
        /\ session_messages[Len(session_messages)].role = "assistant"
        /\ session_messages[Len(session_messages)].content =
              IF FirstHadToolCalls THEN ContentOf(responses[2]) ELSE ""

\* C24 witness: the model answered "x", "y" with no tool call; the page
\* showed "xy", and the assistant message of the history is empty.
C24_Witness ==
    /\ InputHandled
    /\ responses = << << Delta("x", <<>>), Delta("y", <<>>) >> >>
    /\ st_chat[Len(st_chat) - 1] = ChatMessage("assistant", "xy")
    /\ session_messages[Len(session_messages)] = Message("assistant", "")

\* The function-role messages appended in the run.
FunctionMessages ==
    SelectSeq(AfterInput(session_messages), LAMBDA m : m.role = "function")

\* The result of running the tool a call names with the call's own
\* arguments, decoded.
OwnResult(tool_call) ==
    ToolResult(tool_call.functions.name,
               [p \in ParametersOf(tool_call.functions.name) |->
                   json_loads(tool_call.functions.arguments).value[p]])

IsKnown(tool_call) == tool_call.functions.name \in KnownTools

\* The loop over the tool calls has run to its end.
AllDispatched == pc \in {"final_stream", "done"} /\ tool_calls # <<>>

\* The last call at or before the n-th that names one of the four tools
\* (0: none).
LastKnown(n) ==
    LET known == { m \in 1..n : IsKnown(tool_calls[m]) }
    IN  IF known = {} THEN 0 ELSE CHOOSE m \in known : \A k \in known : k <= m

\* C25 as claimed: for every accumulated tool call, in list order, one
\* function-role message is appended, with the name and the id of the call
\* and, as content, the result of the tool of that name on the call's own
\* arguments; the message of a call whose name is none of the four tools
\* never carries the result of another call.
C25_OwnResultPerCall ==
    AllDispatched =>
        /\ Len(FunctionMessages) = Len(tool_calls)
        /\ \A n \in 1..Len(tool_calls) :
              /\ FunctionMessages[n].name = tool_calls[n].functions.name
              /\ FunctionMessages[n].tool_call_id = tool_calls[n].id
              /\ IF IsKnown(tool_calls[n])
                 THEN FunctionMessages[n].content = OwnResult(tool_calls[n])
                 ELSE \A m \in 1..Len(tool_calls) :
                         (m # n /\ IsKnown(tool_calls[m])) =>
                             FunctionMessages[n].content # OwnResult(tool_calls[m])

\* C25, what the code does: one function-role message per call, in list
\* order, with the name and the id of the call; its content is the result
\* of the last call, this one included, that names one of the four tools:
\* a call of another name repeats the result of the call before it.  With
\* no such call before it function_result is unbound, and the run ends
\* with NameError.
C25_UnknownToolRepeatsResult ==
    /\ AllDispatched =>
          /\ Len(FunctionMessages) = Len(tool_calls)
          /\ \A n \in 1..Len(tool_calls) :
                /\ FunctionMessages[n].name = tool_calls[n].functions.name
                /\ FunctionMessages[n].tool_call_id = tool_calls[n].id
                /\ LastKnown(n) # 0
                /\ FunctionMessages[n].content = OwnResult(tool_calls[LastKnown(n)])
    /\ raised = "NameError" =>
          /\ ~IsKnown(tool_calls[dispatch_at])
          /\ LastKnown(dispatch_at) = 0

\* C25 witness: the calls were get_current_time and then get_weather, which
\* is none of the four; the message of get_weather carries the time.
C25_Witness ==
    /\ AllDispatched
    /\ Len(tool_calls) = 2
    /\ tool_calls[1].functions.name = "get_current_time"
    /\ tool_calls[2].functions.name = "get_weather"
    /\ FunctionMessages[2] =
          [role |-> "function", tool_call_id |-> "call_w", name |-> "get_weather",
           content |-> ToolResult("get_current_time", [timezone |-> "UTC"])]

(***************************************************************************)
(* The loop of 03_get_time/get_time_terminal.py.  The model's answers are  *)
(* OpenAI's: an assistant message with a content and tool calls, drawn     *)
(* from a small set.  A request is the history as it was when sent.        *)
(***************************************************************************)
\* Inputs read in one session.
MaxInputs == 2

TerminalInputs == {"hi", "exit"}

ToolCall(id, name) == [id |-> id, function |-> [name |-> name]]

\* ai_response.choices[0].message, as the place-th message of the history:
\* a content and tool calls of some names, whose ids no other call has.
AiMessage(text, names, place) ==
    [role |-> "assistant", content |-> text,
     tool_calls |-> [n \in 1..Len(names) |-> ToolCall(<<"call", place, n>>, names[n])]]

\* The messages the model returns: an answer, one call of get_current_time,
\* two calls of it, one call of another tool.
AiMessages(place) ==
    { AiMessage("ok", <<>>, place),
      AiMessage(None, <<"get_current_time">>, place),
      AiMessage(None, <<"get_current_time", "get_current_time">>, place),
      AiMessage(None, <<"get_weather">>, place) }

\* get_current_time(), of get_functions.py: the time of the call, as text.
get_current_time == "2025-01-01 00:00:00"

\* The tool message of lines 41-50, for some tool calls that are not empty:
\* one for the first call, when it is of get_current_time.
ToolMessages(calls) ==
    IF calls[1].function.name = "get_current_time"
    THEN << [role |-> "tool", tool_call_id |-> calls[1].id, content |-> get_current_time] >>
    ELSE <<>>

beside_terminal == <<turn_vars, message, rendered_by, calls_vars, heap_vars, accumulator_vars,
                     environ_vars, stream_vars, chat_vars, parser_vars>>

InitTerminal ==
    /\ TurnIdle
    /\ CallsIdle /\ HeapIdle /\ AccumulatorIdle /\ EnvironIdle /\ StreamIdle /\ ChatIdle
    /\ ParserIdle
    /\ message = NoneValue
    /\ rendered_by = "none"
    /\ stdout = <<>>
    /\ terminal_messages = << SystemPrompt >>
    /\ terminal_pc = "input"
    /\ requests = <<>>
    /\ inputs_read = 0

\* Lines 24-32: an input is read; unless it is exit, it is appended and
\* the model is asked.
ReadInput ==
    /\ terminal_pc = "input"
    /\ inputs_read < MaxInputs
    /\ inputs_read' = inputs_read + 1
    /\ \E user_input \in TerminalInputs :
          IF user_input = "exit"
          THEN /\ terminal_pc' = "exited"
               /\ UNCHANGED <<terminal_messages, requests>>
          ELSE /\ terminal_messages' = Append(terminal_messages, Message("user", user_input))
               /\ requests' = Append(requests, terminal_messages')
               /\ terminal_pc' = "first_response"
    /\ UNCHANGED <<stdout, beside_terminal>>

\* Lines 33-52 and, with no tool call, 56: the model's message is printed
\* and appended; with tool calls, the tool message is appended if there is
\* one, and the model is asked again.
FirstResponse ==
    /\ terminal_pc = "first_response"
    /\ \E ai_message \in AiMessages(Len(terminal_messages) + 1) :
          LET appended == Append(terminal_messages, ai_message)
          IN  IF ai_message.tool_calls # <<>>
              THEN /\ terminal_messages' = appended \o ToolMessages(ai_message.tool_calls)
                   /\ requests' = Append(requests, terminal_messages')
                   /\ stdout' = Append(stdout, Output("print", ai_message, "\n"))
                   /\ terminal_pc' = "second_response"
              ELSE /\ terminal_messages' = appended
                   /\ stdout' = stdout \o << Output("print", ai_message, "\n"),
                                             Output("print", <<"AI\t: ", ai_message.content>>, "\n") >>
                   /\ terminal_pc' = "input"
                   /\ UNCHANGED requests
    /\ UNCHANGED <<inputs_read, beside_terminal>>

\* Lines 53-56: the model's second message is appended and printed.
SecondResponse ==
    /\ terminal_pc = "second_response"
    /\ \E ai_message \in AiMessages(Len(terminal_messages) + 1) :
          /\ terminal_messages' = Append(terminal_messages, ai_message)
          /\ stdout' = Append(stdout, Output("print", <<"AI\t: ", ai_message.content>>, "\n"))
    /\ terminal_pc' = "input"
    /\ UNCHANGED <<requests, inputs_read, beside_terminal>>

NextTerminal == ReadInput \/ FirstResponse \/ SecondResponse

SpecTerminal == InitTerminal /\ [][NextTerminal]_vars

\* The tool calls of the assistant messages of a request: pairs of the
\* place of the message and the place of the call in it.
CallsIn(request) ==
    { pair \in (1..Len(request)) \X (1..2) :
        /\ request[pair[1]].role = "assistant"
        /\ pair[2] <= Len(request[pair[1]].tool_calls) }

\* Those that no tool message after their assistant message answers.
Unanswered(request) ==
    { pair \in CallsIn(request) :
        ~\E k \in (pair[1] + 1)..Len(request) :
            /\ request[k].role = "tool"
            /\ request[k].tool_call_id = request[pair[1]].tool_calls[pair[2]].id }

\* Reading exit ends the loop, sends nothing and leaves the history as it is.
ExitChangesNothing ==
    [][terminal_pc' = "exited" =>
          (terminal_pc = "input" /\ requests' = requests
               /\ terminal_messages' = terminal_messages)]_vars

\* C26 as claimed: in every request sent, every tool call of every
\* assistant message of the history has a tool message with its id after
\* that message, whatever tool calls the model returned; and the input
\* exit ends the loop without a request and without a change of the history.
C26_EveryToolCallAnswered ==
    /\ [](\A r \in 1..Len(requests) : Unanswered(requests[r]) = {})
    /\ ExitChangesNothing

\* C26, what the code does: the only tool call that is answered is the
\* first call of the first answer to a user input, when it names
\* get_current_time; every other call is unanswered in the requests sent
\* after it.  The input exit ends the loop without a request and without a
\* change of the history.
C26_OnlyFirstTimeCallAnswered ==
    /\ [](\A r \in 1..Len(requests) :
             Unanswered(requests[r]) =
                 { pair \in CallsIn(requests[r]) :
                     ~ /\ pair[2] = 1
                       /\ requests[r][pair[1] - 1].role = "user"
                       /\ requests[r][pair[1]].tool_calls[1].function.name
                             = "get_current_time" })
    /\ ExitChangesNothing

\* C26 witness: the model returned two calls of get_current_time, and the
\* second request was sent with a tool message for the first only; then
\* exit was read.
C26_Witness ==
    /\ terminal_pc = "exited"
    /\ Len(requests) = 2
    /\ Len(requests[2]) = 4
    /\ Len(requests[2][3].tool_calls) = 2
    /\ requests[2][4] = [role |-> "tool", tool_call_id |-> <<"call", 3, 1>>,
                          content |-> get_current_time]
    /\ Unanswered(requests[2]) = { <<3, 2>> }

(***************************************************************************)
(* AgentStreamParser of utils/messages.py.  A message is its class, its    *)
(* text and, for an AI message, its tool calls; a dict is a function of    *)
(* its keys.  A callback is modelled by the record of its call.  The state *)
(* of a parser is its output and the calls of its callbacks so far.        *)
(***************************************************************************)
\* process_node_output and process_agent_steps calls on one parser.
MaxSteps == 3

AIMessage(text, calls) == [kind |-> "AIMessage", content |-> text, tool_calls |-> calls]

ToolMessage(text, id, name) ==
    [kind |-> "ToolMessage", content |-> text, tool_call_id |-> id, name |-> name]

HumanMessage(text) == [kind |-> "HumanMessage", content |-> text]

PyDict(entries) == [kind |-> "dict", entries |-> entries]

SearchCall == [name |-> "search", args |-> "q", id |-> "call_s"]

TimeCall == [name |-> "get_current_time", args |-> "tz", id |-> "call_t"]

\* The messages a node or a step gives.
ParserMessages ==
    { AIMessage("x", <<>>), AIMessage("y", <<>>), AIMessage("", <<>>),
      AIMessage("w", << SearchCall, TimeCall >>),
      AIMessageChunk("", << TimeCall >>),
      ToolMessage("r", "call_s", "search"), HumanMessage("h") }

\* The values of node_output: what is no dict, a dict without messages, a
\* dict whose messages is a list, one message, or None.
NodeOutputs ==
    { StrValue("x"), PyDict([other |-> "o"]),
      PyDict([messages |-> NoneValue]), PyDict([messages |-> AIMessage("x", <<>>)]),
      PyDict([messages |-> ListValue(<< AIMessage("w", << SearchCall, TimeCall >>),
                                        ToolMessage("r", "call_s", "search") >>)]),
      PyDict([messages |-> ListValue(<< AIMessage("x", <<>>), AIMessage("y", <<>>) >>)]) }
        \cup { PyDict([messages |-> ListValue(<< msg >>)]) : msg \in ParserMessages }

\* The values of step: the chunks of a legacy agent executor, which hold
\* actions, steps or output beside messages, and dicts of one key.
Steps ==
    { [actions |-> "a"], [output |-> "z"], [output |-> ""],
      [messages |-> ListValue(<<>>), output |-> "z"],
      [messages |-> ListValue(<< AIMessage("x", <<>>) >>), output |-> "x"],
      [messages |-> ListValue(<< AIMessage("y", <<>>) >>)],
      [messages |-> ListValue(<< AIMessageChunk("", << TimeCall >>) >>), actions |-> "a"],
      [messages |-> ToolMessage("r", "call_s", "search")],
      [messages |-> NoneValue] }

Called(callback, argument) == [callback |-> callback, argument |-> argument]

ParserState(output, called) == [output |-> output, called |-> called]

\* AgentStreamParser._process_tool_call.
process_tool_call(self, tool_call) ==
    LET tool_action == [tool |-> tool_call.name, tool_input |-> tool_call.args,
                        id |-> tool_call.id]
    IN  ParserState(self.output, Append(self.called, Called("tool_callback", tool_action)))

\* AgentStreamParser._process_observation.
process_observation(self, tool_msg) ==
    LET observation_dict == [observation |-> tool_msg.content,
                             tool_call_id |-> tool_msg.tool_call_id,
                             name |-> tool_msg.name]
    IN  ParserState(self.output,
                    Append(self.called, Called("observation_callback", observation_dict)))

\* AgentStreamParser._process_result.
\* (result_not_stored: the callback is called, output is left as it is.)
result_not_stored(self, result) ==
    ParserState(self.output, Append(self.called, Called("result_callback", result)))
process_result(self, result) ==
    ParserState(result, Append(self.called, Called("result_callback", result)))

\* for tc in tool_calls: self._process_tool_call(tc).
RECURSIVE EachToolCall(_, _)
EachToolCall(self, calls) ==
    IF calls = <<>>
    THEN self
    ELSE EachToolCall(process_tool_call(self, Head(calls)), Tail(calls))

\* AgentStreamParser._process_message.
process_message(self, msg) ==
    IF msg.kind \in {"AIMessage", "AIMessageChunk"}
    THEN IF extract_tool_calls(msg) # <<>>
         THEN EachToolCall(self, extract_tool_calls(msg))
         ELSE IF extract_message_text(msg) # ""
         THEN process_result(self, extract_message_text(msg))
         ELSE self
    ELSE IF msg.kind = "ToolMessage"
    THEN process_observation(self, msg)
    ELSE self

\* for msg in messages: self._process_message(msg).
RECURSIVE EachMessage(_, _)
EachMessage(self, msgs) ==
    IF msgs = <<>>
    THEN self
    ELSE EachMessage(process_message(self, Head(msgs)), Tail(msgs))

\* AgentStreamParser.process_node_output.
process_node_output(self, node_name, node_output) ==
    IF node_output.kind = "dict"
    THEN LET messages_got == IF "messages" \in DOMAIN node_output.entries
                             THEN node_output.entries.messages
                             ELSE ListValue(<<>>)
         IN  IF IsList(messages_got)
             THEN EachMessage(self, messages_got.items)
             ELSE IF messages_got # NoneValue
             THEN process_message(self, messages_got)
             ELSE self
    ELSE self

\* AgentStreamParser.process_agent_steps.
process_agent_steps(self, step) ==
    IF "messages" \in DOMAIN step
    THEN IF IsList(step.messages)
         THEN EachMessage(self, step.messages.items)
         ELSE process_message(self, step.messages)
    ELSE IF "output" \in DOMAIN step
    THEN process_result(self, step.output)
    ELSE self

beside_parser == <<turn_vars, tree_vars, calls_vars, heap_vars, accumulator_vars, environ_vars,
                   stream_vars, chat_vars, terminal_vars>>

InitParser ==
    /\ TurnIdle
    /\ TreeIdle
    /\ CallsIdle /\ HeapIdle /\ AccumulatorIdle /\ EnvironIdle
    /\ StreamIdle /\ ChatIdle /\ TerminalIdle
    /\ ParserIdle

\* parser.process_node_output(node_name, node_output).
ProcessNodeOutput ==
    /\ Len(processed) < MaxSteps
    /\ \E node_output \in NodeOutputs :
          LET after == process_node_output(ParserState(parser_output, callbacks_called),
                                           "agent", node_output)
          IN  /\ parser_output' = after.output
              /\ callbacks_called' = after.called
              /\ processed' = Append(processed, [method |-> "process_node_output",
                                                 argument |-> node_output])
    /\ UNCHANGED beside_parser

\* parser.process_agent_steps(step).
ProcessAgentSteps ==
    /\ Len(processed) < MaxSteps
    /\ \E step \in Steps :
          LET after == process_agent_steps(ParserState(parser_output, callbacks_called), step)
          IN  /\ parser_output' = after.output
              /\ callbacks_called' = after.called
              /\ processed' = Append(processed, [method |-> "process_agent_steps",
                                                 argument |-> PyDict(step)])
    /\ UNCHANGED beside_parser

NextParser == ProcessNodeOutput \/ ProcessAgentSteps

SpecParser == InitParser /\ [][NextParser]_vars

\* The messages a call on the parser gives it, in order.
MessagesGiven(call) ==
    IF call.argument.kind # "dict" \/ "messages" \notin DOMAIN call.argument.entries
    THEN <<>>
    ELSE LET given == call.argument.entries.messages
         IN  IF given.kind = "list" THEN given.items
             ELSE IF given.kind = "NoneType" THEN <<>>
             ELSE << given >>

\* What a call gives the parser: its messages and then, if it is a legacy
\* step with an output, that output; with_messages says whether the output
\* of a step that has messages as well counts.
GivenBy(call, with_messages) ==
    [k \in 1..Len(MessagesGiven(call)) |-> [given |-> "message", msg |-> MessagesGiven(call)[k]]]
        \o (IF /\ call.method = "process_agent_steps"
               /\ "output" \in DOMAIN call.argument.entries
               /\ (with_messages \/ "messages" \notin DOMAIN call.argument.entries)
            THEN << [given |-> "output", value |-> call.argument.entries.output] >>
            ELSE <<>>)

RECURSIVE GivenByAll(_, _)
GivenByAll(calls, with_messages) ==
    IF calls = <<>>
    THEN <<>>
    ELSE GivenByAll(SubSeq(calls, 1, Len(calls) - 1), with_messages)
             \o GivenBy(calls[Len(calls)], with_messages)

IsAI(one) == one.given = "message" /\ one.msg.kind \in {"AIMessage", "AIMessageChunk"}

\* An AI message without tool calls whose text is not empty, or a legacy
\* output.
IsResult(one) ==
    \/ one.given = "output"
    \/ IsAI(one) /\ one.msg.tool_calls = <<>> /\ one.msg.content # ""

\* The text of the last result among what was given; None if there is none.
RECURSIVE LastResult(_)
LastResult(all) ==
    IF all = <<>>
    THEN None
    ELSE LET last == all[Len(all)]
         IN  IF IsResult(last)
             THEN IF last.given = "output" THEN last.value ELSE last.msg.content
             ELSE LastResult(SubSeq(all, 1, Len(all) - 1))

\* The callbacks called for one thing given: tool_callback for each tool
\* call of an AI message that has some, in order; result_callback for a
\* result; observation_callback for a tool message; none for anything else.
CallbacksFor(one) ==
    IF IsAI(one) /\ one.msg.tool_calls # <<>>
    THEN [k \in 1..Len(one.msg.tool_calls) |->
             Called("tool_callback", [tool |-> one.msg.tool_calls[k].name,
                                      tool_input |-> one.msg.tool_calls[k].args,
                                      id |-> one.msg.tool_calls[k].id])]
    ELSE IF IsResult(one)
    THEN << Called("result_callback",
                   IF one.given = "output" THEN one.value ELSE one.msg.content) >>
    ELSE IF one.given = "message" /\ one.msg.kind = "ToolMessage"
    THEN << Called("observation_callback",
                   [observation |-> one.msg.content, tool_call_id |-> one.msg.tool_call_id,
                    name |-> one.msg.name]) >>
    ELSE <<>>

RECURSIVE CallbacksForAll(_)
CallbacksForAll(all) ==
    IF all = <<>>
    THEN <<>>
    ELSE CallbacksForAll(SubSeq(all, 1, Len(all) - 1)) \o CallbacksFor(all[Len(all)])

\* C30 as claimed: after any calls, output is the text of the last AI
\* message without tool calls and with a text, or the output of the last
\* legacy step that has one, whichever was processed last, and None if
\* there was none; an AI message with tool calls has tool_callback called
\* once for each call in order and nothing else, and a tool message has
\* observation_callback called and nothing else.
C30_OutputOfLastResultOrLegacyOutput ==
    LET all == GivenByAll(processed, TRUE)
    IN  /\ parser_output = LastResult(all)
        /\ callbacks_called = CallbacksForAll(all)

\* C30, amended: the output of a legacy step counts only when the step has
\* no messages key; a step that has one is processed through its messages
\* alone.
C30_LegacyOutputOnlyWithoutMessages ==
    LET all == GivenByAll(processed, FALSE)
    IN  /\ parser_output = LastResult(all)
        /\ callbacks_called = CallbacksForAll(all)

\* C30 witness: a node output with an answer x, then one with an AI message
\* of two tool calls and a text, followed by a tool message, then a legacy
\* step with messages and an output: output is still x, and the callbacks
\* were called for the result, the two tool calls and the observation.
C30_Witness ==
    /\ Len(processed) = 3
    /\ processed[1].argument = PyDict([messages |-> AIMessage("x", <<>>)])
    /\ processed[2].argument =
          PyDict([messages |-> ListValue(<< AIMessage("w", << SearchCall, TimeCall >>),
                                            ToolMessage("r", "call_s", "search") >>)])
    /\ processed[3].argument = PyDict([messages |-> ListValue(<<>>), output |-> "z"])
    /\ parser_output = "x"
    /\ Len(callbacks_called) = 4
    /\ callbacks_called[1] = Called("result_callback", "x")
    /\ callbacks_called[2].callback = "tool_callback" /\ callbacks_called[2].argument.id = "call_s"
    /\ callbacks_called[3].callback = "tool_callback" /\ callbacks_called[3].argument.id = "call_t"
    /\ callbacks_called[4].callback = "observation_callback"

====
